---- MODULE Spec2Model ----
(***************************************************************************)
(* A model of packages/core/src/browser/shell.ts: the application shell    *)
(* (ApplicationShell) and its two side bar handlers                        *)
(* (Private.SideBarHandler), together with the behaviour of the widget     *)
(* toolkit objects they drive (TabBar, StackedPanel, Panel, DockPanel,     *)
(* FocusTracker, Widget).                                                  *)
(*                                                                         *)
(* Indices are 0-based as in the source; -1 is "no index".  A title is     *)
(* identified with the widget that owns it.                                *)
(***************************************************************************)
EXTENDS Integers, Sequences, FiniteSets, TLC

\* Widget 0 has the empty id, every other widget an id of its own.
\* The side bar operations of SpecSideBar are called with widgets 0..NumWidgets.
NumWidgets == 2
\* The operations of Spec, on all four areas, are called with widgets 0..NumShellWidgets.
NumShellWidgets == 2
\* Ranks passed explicitly in ISideAreaOptions are 0..MaxRank.
MaxRank == 1
\* Widgets 1..NumTabWidgets appear in restored dock layouts.
NumTabWidgets == 5
\* A restored dock layout has at most MaxGroups tab groups.
MaxGroups == 2
\* A widget list of a restored side bar has at most MaxListLen entries.
MaxListLen == 2
\* The save operations of SpecSave are called with widgets 0..NumSaveWidgets in
\* the main area.
NumSaveWidgets == 3
\* The layout trees of SpecRegister hold the widgets 1..NumRegisterWidgets, a
\* branch has at most MaxChildren children, and a tree has at most MaxTreeDepth
\* levels of branches.
NumRegisterWidgets == 2
MaxChildren == 2
MaxTreeDepth == 2

\* `null` / `undefined` for a widget, a title or an option.
Null == -1
\* The id "" (falsy in `!widget.id`).
EmptyId == 0
\* `options.rank !== undefined ? options.rank : 100`
DefaultRank == 100

Sides == {"left", "right"}
Max(a, b) == IF a > b THEN a ELSE b
Widgets == 0 .. Max(NumWidgets, Max(NumShellWidgets, NumTabWidgets))
\* widget.id
WidgetId(w) == IF w = 0 THEN EmptyId ELSE w

VARIABLES
    items,          \* SideBarHandler._items, per side: sequence of [widget, rank]
    sideBar,        \* SideBarHandler._sideBar, per side: [titles, currentIndex, hidden]
    stackedPanel,   \* SideBarHandler._stackedPanel, per side: [widgets, hidden]
    bodyAttr,       \* document.body attribute data-<side>Area, per side (Null: absent)
    topPanel,       \* ApplicationShell._topPanel.widgets
    dockPanel,      \* ApplicationShell._dockPanel: its tab bars in tabBars() order
    tracker,        \* ApplicationShell._tracker: [widgets (a set), currentWidget, activeWidget]
    parent,         \* widget.parent, per widget: "none", "left", "right", "top", "main"
    isHidden,       \* widget.isHidden, per widget
    className,      \* widget.title.className, per widget: its class names in order
    saves,          \* the promise Saveable.save returned to saveAll, per widget
    saveAllPromise  \* the promise saveAll returned to its caller

vars == <<items, sideBar, stackedPanel, bodyAttr, topPanel, dockPanel, tracker,
          parent, isHidden, className, saves, saveAllPromise>>

\* What one operation does besides changing the state: the widgets it asks to
\* activate and to close, in order, the diagnostics it logs (console.error), and
\* whether it throws, and the notifications the shell's signals currentChanged
\* and activeChanged deliver to their slots.
NoEffects ==
    [activated |-> << >>, closed |-> << >>, errors |-> 0, thrown |-> FALSE,
     emitted |-> << >>]

\* The whole state as one record, so that a handler is a function from state to
\* state; the field log collects the effects of the handler that is applied to it.
State ==
    [items |-> items, sideBar |-> sideBar, stackedPanel |-> stackedPanel,
     bodyAttr |-> bodyAttr, topPanel |-> topPanel, dockPanel |-> dockPanel,
     tracker |-> tracker, parent |-> parent, isHidden |-> isHidden,
     className |-> className, saves |-> saves, saveAllPromise |-> saveAllPromise,
     log |-> NoEffects]

\* The next state is the record r.
Commit(r) ==
    /\ items' = r.items
    /\ sideBar' = r.sideBar
    /\ stackedPanel' = r.stackedPanel
    /\ bodyAttr' = r.bodyAttr
    /\ topPanel' = r.topPanel
    /\ dockPanel' = r.dockPanel
    /\ tracker' = r.tracker
    /\ parent' = r.parent
    /\ isHidden' = r.isHidden
    /\ className' = r.className
    /\ saves' = r.saves
    /\ saveAllPromise' = r.saveAllPromise

-----------------------------------------------------------------------------
(* Arrays (ArrayExt of @phosphor/algorithm), 0-based.                       *)

At(array, i) == array[i + 1]

InRange(array, i) == i >= 0 /\ i < Len(array)

\* ArrayExt.firstIndexOf / Array.prototype.indexOf
RECURSIVE IndexFrom(_, _, _)
IndexFrom(array, value, i) ==
    IF i >= Len(array) THEN -1
    ELSE IF At(array, i) = value THEN i
    ELSE IndexFrom(array, value, i + 1)

IndexOf(array, value) == IndexFrom(array, value, 0)

Contains(array, value) == IndexOf(array, value) # -1

\* ArrayExt.insert: the index is clamped to the bounds of the array.
ArrayInsert(array, index, value) ==
    LET j == IF index < 0 THEN 0 ELSE IF index > Len(array) THEN Len(array) ELSE index
    IN SubSeq(array, 1, j) \o <<value>> \o SubSeq(array, j + 1, Len(array))

\* ArrayExt.removeAt: an index out of range removes nothing.
ArrayRemoveAt(array, index) ==
    IF InRange(array, index)
    THEN SubSeq(array, 1, index) \o SubSeq(array, index + 2, Len(array))
    ELSE array

ArrayRemove(array, value) == ArrayRemoveAt(array, IndexOf(array, value))

\* ArrayExt.move: the element at fromIndex ends at toIndex.
ArrayMove(array, fromIndex, toIndex) ==
    ArrayInsert(ArrayRemoveAt(array, fromIndex), toIndex, At(array, fromIndex))

Min(a, b) == IF a < b THEN a ELSE b


Indices(array) == 0 .. Len(array) - 1

\* find / ArrayExt.findFirstIndex: the first of the indices whose element passes
\* the test (hits), or -1.
FindFirstIndex(hits) ==
    IF hits = {} THEN -1 ELSE CHOOSE i \in hits : \A j \in hits : i <= j

\* Private.itemCmp
itemCmp(first, second) == first.rank - second.rank

\* ArrayExt.upperBound with Private.itemCmp: binary search for the first element
\* that compares greater than value (begin, span as in the library's loop).
RECURSIVE UpperBoundLoop(_, _, _, _)
UpperBoundLoop(array, value, begin, span) ==
    IF span <= 0 THEN begin
    ELSE LET half == span \div 2
             middle == begin + half
         IN IF itemCmp(At(array, middle), value) > 0
            THEN UpperBoundLoop(array, value, begin, half)
            ELSE UpperBoundLoop(array, value, middle + 1, span - (half + 1))

UpperBound(array, value) ==
    IF Len(array) = 0 THEN 0 ELSE UpperBoundLoop(array, value, 0, Len(array))

-----------------------------------------------------------------------------
(* Widget                                                                   *)

\* widget.hide()
WidgetHide(s, w) == [s EXCEPT !.isHidden[w] = TRUE]

\* widget.show()
WidgetShow(s, w) == [s EXCEPT !.isHidden[w] = FALSE]

\* widget.activate(): posts an activate request to the widget.
WidgetActivate(s, w) == [s EXCEPT !.log.activated = Append(@, w)]

-----------------------------------------------------------------------------
(* Private.SideBarHandler: the handlers of the side bar's signals           *)

\* TabBar.currentTitle of a tab bar record
CurrentTitle(bar) ==
    IF InRange(bar.titles, bar.currentIndex) THEN At(bar.titles, bar.currentIndex) ELSE Null

\* SideBarHandler._findWidgetIndex
FindWidgetIndex(s, side, widget) ==
    FindFirstIndex({i \in Indices(s.items[side]) : At(s.items[side], i).widget = widget})

\* SideBarHandler._findWidgetByTitle
FindWidgetByTitle(s, side, title) ==
    LET i == FindFirstIndex({j \in Indices(s.items[side]) : At(s.items[side], j).widget = title})
    IN IF title = Null \/ i = -1 THEN Null ELSE At(s.items[side], i).widget

\* A lookup that falls back to the first item when no item has the id.
FindWidgetByIDOrFirst(s, side, id) ==
    LET i == FindFirstIndex({j \in Indices(s.items[side]) :
                                 WidgetId(At(s.items[side], j).widget) = id})
    IN IF i # -1 THEN At(s.items[side], i).widget
       ELSE IF s.items[side] # << >> THEN At(s.items[side], 0).widget
       ELSE Null

\* SideBarHandler._findWidgetByID
FindWidgetByID(s, side, id) ==
    LET i == FindFirstIndex({j \in Indices(s.items[side]) :
                                 WidgetId(At(s.items[side], j).widget) = id})
    IN IF i = -1 THEN Null ELSE At(s.items[side], i).widget

\* A refresh that hides strip and stack alike when no tab is current.
RefreshVisibilityByCurrent(s, side) ==
    [s EXCEPT !.sideBar[side].hidden = (CurrentTitle(s.sideBar[side]) = Null),
              !.stackedPanel[side].hidden = (CurrentTitle(s.sideBar[side]) = Null)]

\* SideBarHandler._refreshVisibility
RefreshVisibility(s, side) ==
    [s EXCEPT !.sideBar[side].hidden = (Len(s.sideBar[side].titles) = 0),
              !.stackedPanel[side].hidden = (CurrentTitle(s.sideBar[side]) = Null)]

\* `if (oldWidget) { oldWidget.hide(); }`
HideIfAny(s, w) == IF w # Null THEN WidgetHide(s, w) ELSE s

\* `if (newWidget) { newWidget.show(); }`
ShowIfAny(s, w) == IF w # Null THEN WidgetShow(s, w) ELSE s

\* document.body.setAttribute(`data-${side}Area`, newWidget.id), or
\* removeAttribute when there is no new widget.
SetBodyAttribute(s, side, newWidget) ==
    [s EXCEPT !.bodyAttr[side] = IF newWidget # Null THEN WidgetId(newWidget) ELSE Null]

\* A handler that does not hide the widget of the previous title.
OnCurrentChangedNoHide(s, side, previousTitle, currentTitle) ==
    RefreshVisibility(
        SetBodyAttribute(
            ShowIfAny(s, FindWidgetByTitle(s, side, currentTitle)),
            side, FindWidgetByTitle(s, side, currentTitle)),
        side)

\* A handler that sets the marker and never removes it.
OnCurrentChangedKeepsMarker(s, side, previousTitle, currentTitle) ==
    RefreshVisibility(
        IF FindWidgetByTitle(s, side, currentTitle) # Null
        THEN SetBodyAttribute(
                 ShowIfAny(HideIfAny(s, FindWidgetByTitle(s, side, previousTitle)),
                           FindWidgetByTitle(s, side, currentTitle)),
                 side, FindWidgetByTitle(s, side, currentTitle))
        ELSE HideIfAny(s, FindWidgetByTitle(s, side, previousTitle)),
        side)

\* SideBarHandler._onCurrentChanged
OnCurrentChanged(s, side, previousTitle, currentTitle) ==
    RefreshVisibility(
        SetBodyAttribute(
            ShowIfAny(HideIfAny(s, FindWidgetByTitle(s, side, previousTitle)),
                      FindWidgetByTitle(s, side, currentTitle)),
            side, FindWidgetByTitle(s, side, currentTitle)),
        side)

\* The side bar's TabBar.currentIndex setter; it emits currentChanged, which the
\* constructor connects to _onCurrentChanged.
SideSetCurrentIndex(s, side, index) ==
    LET bar == s.sideBar[side]
        value == IF InRange(bar.titles, index) THEN index ELSE -1
        pt == CurrentTitle(bar)
        ct == IF value = -1 THEN Null ELSE At(bar.titles, value)
    IN IF bar.currentIndex = value THEN s
       ELSE OnCurrentChanged([s EXCEPT !.sideBar[side].currentIndex = value], side, pt, ct)

\* The side bar's TabBar.currentTitle setter
SideSetCurrentTitle(s, side, title) ==
    SideSetCurrentIndex(s, side,
        IF title = Null THEN -1 ELSE IndexOf(s.sideBar[side].titles, title))

\* An insertion with insertBehavior 'select-tab': a new tab becomes the current tab.
SideInsertTabSelecting(s, side, index, title) ==
    LET bar == s.sideBar[side]
        n == Len(bar.titles)
        j0 == IF index < 0 THEN 0 ELSE IF index > n THEN n ELSE index
    IN IF Contains(bar.titles, title) THEN s
       ELSE OnCurrentChanged(
                [s EXCEPT !.sideBar[side].titles = ArrayInsert(bar.titles, j0, title),
                          !.sideBar[side].currentIndex = j0],
                side, CurrentTitle(bar), title)

\* The side bar's TabBar.insertTab with insertBehavior 'none': a new title shifts
\* the current index silently; a title already in the bar is moved.
SideInsertTab(s, side, index, title) ==
    LET bar == s.sideBar[side]
        n == Len(bar.titles)
        i == IndexOf(bar.titles, title)
        j0 == IF index < 0 THEN 0 ELSE IF index > n THEN n ELSE index
        j == IF j0 = n THEN j0 - 1 ELSE j0
        ci == bar.currentIndex
    IN IF i = -1
       THEN [s EXCEPT !.sideBar[side].titles = ArrayInsert(bar.titles, j0, title),
                      !.sideBar[side].currentIndex = IF ci >= j0 THEN ci + 1 ELSE ci]
       ELSE IF i = j THEN s
       ELSE [s EXCEPT !.sideBar[side].titles = ArrayMove(bar.titles, i, j),
                      !.sideBar[side].currentIndex =
                          IF ci = i THEN j
                          ELSE IF ci < i /\ ci >= j THEN ci + 1
                          ELSE IF ci > i /\ ci <= j THEN ci - 1
                          ELSE ci]

\* A removal with removeBehavior 'select-tab-after': removing the current tab
\* selects the tab that follows it.
SideRemoveTabSelectAfter(s, side, title) ==
    LET bar == s.sideBar[side]
        i == IndexOf(bar.titles, title)
        ci == bar.currentIndex
        rest == ArrayRemoveAt(bar.titles, i)
        after == Min(i, Len(rest) - 1)
    IN IF i = -1 THEN s
       ELSE IF ci # i
       THEN [s EXCEPT !.sideBar[side].titles = rest,
                      !.sideBar[side].currentIndex = IF ci > i THEN ci - 1 ELSE ci]
       ELSE OnCurrentChanged(
                [s EXCEPT !.sideBar[side].titles = rest,
                          !.sideBar[side].currentIndex = after],
                side, title, IF after = -1 THEN Null ELSE At(rest, after))

\* The side bar's TabBar.removeTab with removeBehavior 'none': removing the
\* current tab deselects and emits currentChanged; any other removal shifts the
\* current index silently.
SideRemoveTab(s, side, title) ==
    LET bar == s.sideBar[side]
        i == IndexOf(bar.titles, title)
        ci == bar.currentIndex
        rest == ArrayRemoveAt(bar.titles, i)
    IN IF i = -1 THEN s
       ELSE IF ci # i
       THEN [s EXCEPT !.sideBar[side].titles = rest,
                      !.sideBar[side].currentIndex = IF ci > i THEN ci - 1 ELSE ci]
       ELSE OnCurrentChanged(
                [s EXCEPT !.sideBar[side].titles = rest,
                          !.sideBar[side].currentIndex = -1],
                side, title, Null)

\* SideBarHandler._onWidgetRemoved
OnWidgetRemoved(s, side, widget) ==
    RefreshVisibility(
        SideRemoveTab(
            [s EXCEPT !.items[side] = ArrayRemoveAt(@, FindWidgetIndex(s, side, widget))],
            side, widget),
        side)

-----------------------------------------------------------------------------
(* DockPanel: the tab bars created by DockPanelRenderer.createTabBar, with  *)
(* the behaviour the dock panel enforces on them (insertBehavior            *)
(* 'select-tab-if-needed', removeBehavior 'select-previous-tab').           *)

\* A tab bar of the dock panel, 0-based position b in tabBars() order.
Bar(s, b) == At(s.dockPanel, b)

\* DockPanel's handler of a tab bar's currentChanged: hide the previous owner,
\* show the current one.
DockOnCurrentChanged(s, previousTitle, currentTitle) ==
    LET s1 == IF previousTitle # Null THEN WidgetHide(s, previousTitle) ELSE s
    IN IF currentTitle # Null THEN WidgetShow(s1, currentTitle) ELSE s1

\* A dock tab bar's TabBar.currentIndex setter
DockSetCurrentIndex(s, b, index) ==
    LET bar == Bar(s, b)
        value == IF InRange(bar.titles, index) THEN index ELSE -1
        pt == CurrentTitle(bar)
        ct == IF value = -1 THEN Null ELSE At(bar.titles, value)
    IN IF bar.currentIndex = value THEN s
       ELSE DockOnCurrentChanged(
                [s EXCEPT !.dockPanel[b + 1].currentIndex = value,
                          !.dockPanel[b + 1].previousTitle = pt],
                pt, ct)

\* A dock tab bar's TabBar.insertTab
DockInsertTab(s, b, index, title) ==
    LET bar == Bar(s, b)
        n == Len(bar.titles)
        i == IndexOf(bar.titles, title)
        j0 == IF index < 0 THEN 0 ELSE IF index > n THEN n ELSE index
        j == IF j0 = n THEN j0 - 1 ELSE j0
        ci == bar.currentIndex
        ct == CurrentTitle(bar)
    IN IF i = -1
       THEN IF ci = -1
            THEN DockOnCurrentChanged(
                     [s EXCEPT !.dockPanel[b + 1].titles = ArrayInsert(bar.titles, j0, title),
                               !.dockPanel[b + 1].currentIndex = j0,
                               !.dockPanel[b + 1].previousTitle = ct],
                     ct, title)
            ELSE [s EXCEPT !.dockPanel[b + 1].titles = ArrayInsert(bar.titles, j0, title),
                           !.dockPanel[b + 1].currentIndex = IF ci >= j0 THEN ci + 1 ELSE ci]
       ELSE IF i = j THEN s
       ELSE [s EXCEPT !.dockPanel[b + 1].titles = ArrayMove(bar.titles, i, j),
                      !.dockPanel[b + 1].currentIndex =
                          IF ci = i THEN j
                          ELSE IF ci < i /\ ci >= j THEN ci + 1
                          ELSE IF ci > i /\ ci <= j THEN ci - 1
                          ELSE ci]

\* A dock tab bar's TabBar.removeTab: removing the current tab selects the
\* previously selected tab, or else the tab that takes its place.
DockRemoveTab(s, b, title) ==
    LET bar == Bar(s, b)
        i == IndexOf(bar.titles, title)
        ci == bar.currentIndex
        rest == ArrayRemoveAt(bar.titles, i)
        pt == IF bar.previousTitle = title THEN Null ELSE bar.previousTitle
        ni == IF pt # Null THEN IndexOf(rest, pt) ELSE Min(i, Len(rest) - 1)
    IN IF i = -1 THEN s
       ELSE IF ci # i
       THEN [s EXCEPT !.dockPanel[b + 1].titles = rest,
                      !.dockPanel[b + 1].previousTitle = pt,
                      !.dockPanel[b + 1].currentIndex = IF ci > i THEN ci - 1 ELSE ci]
       ELSE DockOnCurrentChanged(
                [s EXCEPT !.dockPanel[b + 1].titles = rest,
                          !.dockPanel[b + 1].previousTitle = Null,
                          !.dockPanel[b + 1].currentIndex = ni],
                title, IF ni = -1 THEN Null ELSE At(rest, ni))

\* find(dock.tabBars(), bar => ArrayExt.firstIndexOf(bar.titles, title) > -1):
\* the position of the first tab bar holding the title, or -1.
FindTabBar(s, title) ==
    FindFirstIndex({b \in Indices(s.dockPanel) : IndexOf(Bar(s, b).titles, title) > -1})

\* dock.widgets(): the widgets of every tab bar, in order.
RECURSIVE DockWidgetsFrom(_, _)
DockWidgetsFrom(s, b) ==
    IF b >= Len(s.dockPanel) THEN << >> ELSE Bar(s, b).titles \o DockWidgetsFrom(s, b + 1)

DockWidgets(s) == DockWidgetsFrom(s, 0)

\* The dock layout's removal of a widget: its tab is removed, and a tab bar left
\* without tabs is disposed.
DockRemoveWidget(s, widget) ==
    LET b == FindTabBar(s, widget)
    IN IF b = -1 THEN s
       ELSE IF Len(Bar(s, b).titles) > 1 THEN DockRemoveTab(s, b, widget)
       ELSE [s EXCEPT !.dockPanel = ArrayRemoveAt(@, b)]

-----------------------------------------------------------------------------
(* Reparenting                                                              *)

\* The child-removed message the parent setter sends to the old parent: a
\* stacked panel drops the widget and emits widgetRemoved, which the handler's
\* constructor connects to _onWidgetRemoved; the top panel and the dock layout
\* drop the widget.
ChildRemoved(s, widget, old) ==
    IF old \in Sides
    THEN OnWidgetRemoved([s EXCEPT !.stackedPanel[old].widgets = ArrayRemove(@, widget)],
                         old, widget)
    ELSE IF old = "top" THEN [s EXCEPT !.topPanel = ArrayRemove(@, widget)]
    ELSE IF old = "main" THEN DockRemoveWidget(s, widget)
    ELSE s

\* A parent setter that does not tell the old parent.
SetParentNoDetach(s, widget, value) == [s EXCEPT !.parent[widget] = value]

\* The widget.parent setter
SetParent(s, widget, value) ==
    IF s.parent[widget] = value THEN s
    ELSE [ChildRemoved(s, widget, s.parent[widget]) EXCEPT !.parent[widget] = value]

\* PanelLayout.insertWidget on a widget sequence: insert, or move when present.
PanelInsert(array, index, widget) ==
    LET n == Len(array)
        i == IndexOf(array, widget)
        j0 == IF index < 0 THEN 0 ELSE IF index > n THEN n ELSE index
        j == IF j0 = n THEN j0 - 1 ELSE j0
    IN IF i = -1 THEN ArrayInsert(array, j0, widget)
       ELSE IF i = j THEN array
       ELSE ArrayMove(array, i, j)

\* widget.close(): the default close request handler unparents the widget.
WidgetClose(s, widget) ==
    IF s.parent[widget] # "none"
    THEN SetParent([s EXCEPT !.log.closed = Append(@, widget)], widget, "none")
    ELSE [s EXCEPT !.log.closed = Append(@, widget)]

-----------------------------------------------------------------------------
(* Private.SideBarHandler: the public methods                               *)

\* A search that stops at the first item that does not compare less.
FindInsertIndexLowerBound(s, side, item) ==
    LET i == FindFirstIndex({j \in Indices(s.items[side]) :
                                 itemCmp(At(s.items[side], j), item) >= 0})
    IN IF i = -1 THEN Len(s.items[side]) ELSE i

\* SideBarHandler._findInsertIndex
FindInsertIndex(s, side, item) == UpperBound(s.items[side], item)

\* An insertion into the stacked panel at its end, whatever the index.
StackAppendWidget(s, side, index, widget) ==
    [SetParent(s, widget, side) EXCEPT
         !.stackedPanel[side].widgets = PanelInsert(@, Len(@), widget)]

\* this._stackedPanel.insertWidget(index, widget)
StackInsertWidget(s, side, index, widget) ==
    [SetParent(s, widget, side) EXCEPT
         !.stackedPanel[side].widgets = PanelInsert(@, index, widget)]

\* SideBarHandler.addWidget from ArrayExt.insert on: the item, the widget and
\* the tab are inserted at index, then the visibility is refreshed.
SideInsertAt(s, side, widget, item, index) ==
    RefreshVisibility(
        SideInsertTab(
            StackInsertWidget(
                [s EXCEPT !.items[side] = ArrayInsert(@, index, item)], side, index, widget),
            side, index, widget),
        side)

\* SideBarHandler.addWidget after `widget.parent = null; widget.hide()`: the
\* item is inserted at the index _findInsertIndex gives.
SideAddHidden(s, side, widget, item) ==
    SideInsertAt(s, side, widget, item, FindInsertIndex(s, side, item))

\* An add that does not unparent the widget first.
SideAddWidgetNoUnparent(s, side, widget, rank) ==
    SideAddHidden(WidgetHide(s, widget), side, widget, [widget |-> widget, rank |-> rank])

\* SideBarHandler.addWidget
SideAddWidget(s, side, widget, rank) ==
    SideAddHidden(WidgetHide(SetParent(s, widget, "none"), widget),
                  side, widget, [widget |-> widget, rank |-> rank])

\* SideBarHandler.activate
SideActivate(s, side, id) ==
    LET widget == FindWidgetByID(s, side, id)
    IN IF widget # Null
       THEN WidgetActivate(SideSetCurrentTitle(s, side, widget), widget)
       ELSE s

\* SideBarHandler.collapse
SideCollapse(s, side) == SideSetCurrentTitle(s, side, Null)

\* An optional array of a layout datum is undefined, an array of its own, or
\* (what getLayoutData returns for `widgets`) the stacked panel's own array.
UndefinedArray == [kind |-> "undefined"]
ArrayOf(elems) == [kind |-> "array", elems |-> elems]
StackArrayOf(side) == [kind |-> "stack", side |-> side]

\* The elements an array reference holds in state s.
Elems(s, ref) ==
    IF ref.kind = "array" THEN ref.elems
    ELSE IF ref.kind = "stack" THEN s.stackedPanel[ref.side].widgets
    ELSE << >>

UndefinedData == [type |-> "undefined"]
SideBarData(widgets, activeWidgets) ==
    [type |-> "SideBarData", widgets |-> widgets, activeWidgets |-> activeWidgets]

\* SideBarHandler.getLayoutData
SideGetLayoutData(s, side) ==
    LET currentActive == FindWidgetByTitle(s, side, CurrentTitle(s.sideBar[side]))
    IN SideBarData(StackArrayOf(side),
                   ArrayOf(IF currentActive # Null THEN <<currentActive>> ELSE << >>))

\* The loop of setLayoutData over layoutData.widgets: position i of the array as
\* it is when the iteration gets there, index the next synthetic rank.
RECURSIVE RestoreWidgets(_, _, _, _, _)
RestoreWidgets(s, side, ref, i, index) ==
    IF i >= Len(Elems(s, ref)) THEN s
    ELSE LET widget == At(Elems(s, ref), i)
         IN IF widget # Null
            THEN RestoreWidgets(SideAddWidget(s, side, widget, index), side, ref, i + 1, index + 1)
            ELSE RestoreWidgets(s, side, ref, i + 1, index)

\* The loop of setLayoutData over layoutData.activeWidgets
RECURSIVE RestoreActive(_, _, _, _)
RestoreActive(s, side, ref, i) ==
    IF i >= Len(Elems(s, ref)) THEN s
    ELSE RestoreActive(SideActivate(s, side, WidgetId(At(Elems(s, ref), i))), side, ref, i + 1)

\* A restore that does not collapse the side bar first.
SideSetLayoutDataNoCollapse(s, side, layoutData) ==
    IF layoutData.type = "undefined" THEN s
    ELSE RestoreActive(
             IF layoutData.widgets.kind # "undefined"
             THEN RestoreWidgets(s, side, layoutData.widgets, 0, 0)
             ELSE s,
             side,
             IF layoutData.activeWidgets.kind # "undefined"
             THEN layoutData.activeWidgets
             ELSE ArrayOf(<< >>),
             0)

\* SideBarHandler.setLayoutData
SideSetLayoutData(s, side, layoutData) ==
    IF layoutData.type = "undefined" THEN s
    ELSE RestoreActive(
             IF layoutData.widgets.kind # "undefined"
             THEN RestoreWidgets(SideCollapse(s, side), side, layoutData.widgets, 0, 0)
             ELSE SideCollapse(s, side),
             side,
             IF layoutData.activeWidgets.kind # "undefined"
             THEN layoutData.activeWidgets
             ELSE ArrayOf(<< >>),
             0)

-----------------------------------------------------------------------------
(* ApplicationShell: focus tracking and the dock panel                      *)

\* ApplicationShell.track: FocusTracker.add ignores a widget it already tracks.
Track(s, widget) ==
    IF widget \in s.tracker.widgets THEN s
    ELSE [s EXCEPT !.tracker.widgets = @ \cup {widget}]

\* DockPanel.addWidget, mode 'tab-after' without a reference widget: the tab is
\* put after the current tab of the first tab bar.
DockInsertAfterCurrent(s, widget) ==
    DockInsertTab(s, 0, Bar(s, 0).currentIndex + 1, widget)

\* DockPanel.addWidget once the widget is a child of the dock panel.
DockAddChild(s, widget) ==
    IF Len(s.dockPanel) = 0
    THEN DockInsertTab(
             [s EXCEPT !.dockPanel =
                  <<[titles |-> << >>, currentIndex |-> -1, previousTitle |-> Null]>>],
             0, 0, widget)
    ELSE IF ~Contains(Bar(s, 0).titles, widget)
    THEN DockInsertAfterCurrent(WidgetHide(DockRemoveWidget(s, widget), widget), widget)
    ELSE DockInsertAfterCurrent(s, widget)

\* DockPanel.addWidget(widget, { mode: 'tab-after' }) without a reference widget:
\* the widget is reparented to the dock panel, then its tab is put after the
\* current tab of the first tab bar (a first tab bar is created for an empty dock).
DockAddWidget(s, widget) == DockAddChild(SetParent(s, widget, "main"), widget)

\* DockPanel.activateWidget: select the widget's tab, then activate the widget.
DockActivateWidget(s, widget) ==
    LET b == FindTabBar(s, widget)
    IN WidgetActivate(
           IF b # -1 THEN DockSetCurrentIndex(s, b, IndexOf(Bar(s, b).titles, widget)) ELSE s,
           widget)

\* ApplicationShell.activateMain
ActivateMain(s, id) ==
    LET i == FindFirstIndex({j \in Indices(DockWidgets(s)) : WidgetId(At(DockWidgets(s), j)) = id})
    IN IF i # -1 THEN DockActivateWidget(s, At(DockWidgets(s), i)) ELSE s

\* A lookup that falls back to the first tab bar when the current widget is in none.
CurrentTabBarOrFirst(s) ==
    LET current == s.tracker.currentWidget
    IN IF current # Null /\ FindTabBar(s, current) # -1 THEN FindTabBar(s, current)
       ELSE IF s.dockPanel # << >> THEN 0
       ELSE -1

\* ApplicationShell._currentTabBar: the position of the tab bar, -1 for undefined.
CurrentTabBar(s) ==
    LET current == s.tracker.currentWidget
    IN IF current # Null THEN FindTabBar(s, current) ELSE -1

\* A previous tab bar that is null before the first tab bar.
PreviousTabBarNoWrap(s) ==
    LET current == CurrentTabBar(s)
    IN IF current > 0 THEN current - 1 ELSE -1

\* ApplicationShell._previousTabBar: the position of the tab bar, -1 for null.
PreviousTabBar(s) ==
    LET current == CurrentTabBar(s)
        len == Len(s.dockPanel)
        ci == current
    IN IF current # -1
       THEN IF ci > 0 THEN ci - 1
            ELSE IF ci = 0 THEN len - 1
            ELSE -1
       ELSE -1

\* A next tab bar that is null after the last tab bar.
NextTabBarNoWrap(s) ==
    LET current == CurrentTabBar(s)
    IN IF current # -1 /\ current < Len(s.dockPanel) - 1 THEN current + 1 ELSE -1

\* ApplicationShell._nextTabBar: the position of the tab bar, -1 for null.
NextTabBar(s) ==
    LET current == CurrentTabBar(s)
        len == Len(s.dockPanel)
        ci == current
    IN IF current # -1
       THEN IF ci < len - 1 THEN ci + 1
            ELSE IF ci = len - 1 THEN 0
            ELSE -1
       ELSE -1

\* `bar.currentTitle.owner.activate()` under `if (bar.currentTitle)`
ActivateCurrentOwner(s, b) ==
    IF CurrentTitle(Bar(s, b)) # Null THEN WidgetActivate(s, CurrentTitle(Bar(s, b))) ELSE s

\* A next-tab operation that wraps to the first tab of the same tab bar.
ActivateNextTabInGroup(s) ==
    LET current == CurrentTabBar(s)
        ci == Bar(s, current).currentIndex
    IN IF current # -1 /\ ci # -1
       THEN IF ci < Len(Bar(s, current).titles) - 1
            THEN ActivateCurrentOwner(DockSetCurrentIndex(s, current, ci + 1), current)
            ELSE ActivateCurrentOwner(DockSetCurrentIndex(s, current, 0), current)
       ELSE s

\* ApplicationShell.activateNextTab
ActivateNextTab(s) ==
    LET current == CurrentTabBar(s)
        ci == Bar(s, current).currentIndex
        nextBar == NextTabBar(s)
    IN IF current # -1 /\ ci # -1
       THEN IF ci < Len(Bar(s, current).titles) - 1
            THEN ActivateCurrentOwner(DockSetCurrentIndex(s, current, ci + 1), current)
            ELSE IF ci = Len(Bar(s, current).titles) - 1 /\ nextBar # -1
            THEN ActivateCurrentOwner(DockSetCurrentIndex(s, nextBar, 0), nextBar)
            ELSE s
       ELSE s

\* ApplicationShell.activatePreviousTab
ActivatePreviousTab(s) ==
    LET current == CurrentTabBar(s)
        ci == Bar(s, current).currentIndex
        prevBar == PreviousTabBar(s)
    IN IF current # -1 /\ ci # -1
       THEN IF ci > 0
            THEN ActivateCurrentOwner(DockSetCurrentIndex(s, current, ci - 1), current)
            ELSE IF ci = 0 /\ prevBar # -1
            THEN ActivateCurrentOwner(
                     DockSetCurrentIndex(s, prevBar, Len(Bar(s, prevBar).titles) - 1), prevBar)
            ELSE s
       ELSE s

\* `titles[i].owner.close()`: reading the owner of a missing title throws.
CloseTitle(s, titles, i) ==
    IF InRange(titles, i) THEN WidgetClose(s, At(titles, i))
    ELSE [s EXCEPT !.log.thrown = TRUE]

\* The titles of the tab bar that was at position b when the operation began;
\* the bar is disposed, and its titles cleared, once its last tab is removed.
LiveTitles(s, b, first) ==
    IF InRange(s.dockPanel, b) /\ Bar(s, b).titles # << >>
       /\ Contains(first, At(Bar(s, b).titles, 0))
    THEN Bar(s, b).titles ELSE << >>

\* ApplicationShell.closeTab
CloseTab(s) ==
    LET current == CurrentTabBar(s)
        title == CurrentTitle(Bar(s, current))
    IN IF current # -1 /\ Bar(s, current).currentIndex # -1 /\ title # Null
       THEN WidgetClose(s, title)
       ELSE s

\* A loop that closes the owner of titles[i].
RECURSIVE CloseRightLoopAdvancing(_, _, _, _, _, _)
CloseRightLoopAdvancing(s, current, first, next, i, last) ==
    IF i > last \/ s.log.thrown THEN s
    ELSE CloseRightLoopAdvancing(CloseTitle(s, LiveTitles(s, current, first), i),
                                 current, first, next, i + 1, last)

\* The loop of closeRightTabs: `for (let i = next; i <= last; i++)`
RECURSIVE CloseRightLoop(_, _, _, _, _, _)
CloseRightLoop(s, current, first, next, i, last) ==
    IF i > last \/ s.log.thrown THEN s
    ELSE CloseRightLoop(CloseTitle(s, LiveTitles(s, current, first), next),
                        current, first, next, i + 1, last)

\* ApplicationShell.closeRightTabs
CloseRightTabs(s) ==
    LET current == CurrentTabBar(s)
        length == Len(Bar(s, current).titles)
        ci == Bar(s, current).currentIndex
        last == length - 1
        next == ci + 1
    IN IF current # -1 /\ length > 0 /\ ci # -1 /\ last > ci
       THEN CloseRightLoop(s, current, Bar(s, current).titles, next, next, last)
       ELSE s

\* A loop over the titles of the tab bar as they are, not over a copy.
RECURSIVE CloseOtherLoopLive(_, _, _, _)
CloseOtherLoopLive(s, titles, ci, i) ==
    LET live == LiveTitles(s, FindTabBar(s, At(titles, ci)), titles)
    IN IF i >= Len(live) \/ s.log.thrown THEN s
       ELSE IF i # ci THEN CloseOtherLoopLive(CloseTitle(s, live, i), titles, ci, i + 1)
       ELSE CloseOtherLoopLive(s, titles, ci, i + 1)

\* The loop of closeOtherTabs over the copy `titles`
RECURSIVE CloseOtherLoop(_, _, _, _)
CloseOtherLoop(s, titles, ci, i) ==
    IF i >= Len(titles) \/ s.log.thrown THEN s
    ELSE IF i # ci THEN CloseOtherLoop(CloseTitle(s, titles, i), titles, ci, i + 1)
    ELSE CloseOtherLoop(s, titles, ci, i + 1)

\* ApplicationShell.closeOtherTabs
CloseOtherTabs(s) ==
    LET current == CurrentTabBar(s)
        ci == Bar(s, current).currentIndex
    IN IF current # -1 /\ ci # -1
       THEN CloseOtherLoop(s, Bar(s, current).titles, ci, 0)
       ELSE s

\* A loop that closes the owner of titles[i].
RECURSIVE CloseAllLoopAdvancing(_, _, _, _, _)
CloseAllLoopAdvancing(s, current, first, i, length) ==
    IF i >= length \/ s.log.thrown THEN s
    ELSE CloseAllLoopAdvancing(CloseTitle(s, LiveTitles(s, current, first), i),
                               current, first, i + 1, length)

\* The loop of closeAllTabs: `for (let i = 0; i < length; i++)`
RECURSIVE CloseAllLoop(_, _, _, _, _)
CloseAllLoop(s, current, first, i, length) ==
    IF i >= length \/ s.log.thrown THEN s
    ELSE CloseAllLoop(CloseTitle(s, LiveTitles(s, current, first), 0),
                      current, first, i + 1, length)

\* ApplicationShell.closeAllTabs
CloseAllTabs(s) ==
    LET current == CurrentTabBar(s)
    IN IF current # -1
       THEN CloseAllLoop(s, current, Bar(s, current).titles, 0, Len(Bar(s, current).titles))
       ELSE s

\* The loop of closeAll over toArray(dock.widgets())
RECURSIVE CloseEach(_, _, _)
CloseEach(s, widgets, i) ==
    IF i >= Len(widgets) THEN s ELSE CloseEach(WidgetClose(s, At(widgets, i)), widgets, i + 1)

\* ApplicationShell.closeAll
CloseAll(s) == CloseEach(s, DockWidgets(s), 0)

\* ApplicationShell.hasSelectedTab
HasSelectedTab(s) ==
    LET current == CurrentTabBar(s)
    IN IF current # -1 THEN Bar(s, current).currentIndex # -1 ELSE FALSE

-----------------------------------------------------------------------------
(* ApplicationShell: adding widgets                                         *)

\* console.error(...)
ConsoleError(s) == [s EXCEPT !.log.errors = @ + 1]

\* An add that logs the diagnostic and goes on.
AddToSideAreaNoReturn(s, side, widget, rank) ==
    SideAddWidget(IF WidgetId(widget) = EmptyId THEN ConsoleError(s) ELSE s,
                  side, widget, IF rank # Null THEN rank ELSE DefaultRank)

\* ApplicationShell.addToLeftArea / addToRightArea (side is the handler used);
\* rank is options.rank, Null when the option is not given.
AddToSideArea(s, side, widget, rank) ==
    IF WidgetId(widget) = EmptyId THEN ConsoleError(s)
    ELSE SideAddWidget(s, side, widget, IF rank # Null THEN rank ELSE DefaultRank)

\* ApplicationShell.addToMainArea
AddToMainArea(s, widget) ==
    IF WidgetId(widget) = EmptyId THEN ConsoleError(s)
    ELSE Track(DockAddWidget(s, widget), widget)

\* ApplicationShell.addToTopArea: Panel.addWidget appends the widget.
AddToTopArea(s, widget) ==
    IF WidgetId(widget) = EmptyId THEN ConsoleError(s)
    ELSE [SetParent(s, widget, "top") EXCEPT !.topPanel = PanelInsert(@, Len(@), widget)]

-----------------------------------------------------------------------------
(* ApplicationShell: layout data                                            *)

\* The layout tree of the dock panel: a tab area holds widgets, a split area
\* holds child areas; `main: null` stands for an empty dock panel.
NullArea == [type |-> "null"]
TabArea(widgets, currentIndex) ==
    [type |-> "tab-area", widgets |-> widgets, currentIndex |-> currentIndex]
SplitArea(children) == [type |-> "split-area", children |-> children]

\* `!data`
IsAbsent(data) == data.type \in {"undefined", "null"}

\* DockPanel.saveLayout().main: the tab bars in order, under one split area when
\* there are several.
RECURSIVE SaveAreas(_, _)
SaveAreas(s, b) ==
    IF b >= Len(s.dockPanel) THEN << >>
    ELSE <<TabArea(Bar(s, b).titles, Bar(s, b).currentIndex)>> \o SaveAreas(s, b + 1)

SaveLayout(s) ==
    IF Len(s.dockPanel) = 0 THEN NullArea
    ELSE IF Len(s.dockPanel) = 1 THEN SaveAreas(s, 0)[1]
    ELSE SplitArea(SaveAreas(s, 0))

\* The widgets of a layout tree, in order.
RECURSIVE AreaWidgets(_)
RECURSIVE AreaWidgetsFrom(_, _)
AreaWidgets(node) ==
    IF node.type = "tab-area" THEN node.widgets
    ELSE IF node.type = "split-area" THEN AreaWidgetsFrom(node.children, 0)
    ELSE << >>
AreaWidgetsFrom(children, i) ==
    IF i >= Len(children) THEN << >>
    ELSE AreaWidgets(At(children, i)) \o AreaWidgetsFrom(children, i + 1)

\* Reparent each widget of the array, in order.
RECURSIVE SetParentEach(_, _, _, _)
SetParentEach(s, widgets, i, value) ==
    IF i >= Len(widgets) THEN s
    ELSE SetParentEach(SetParent(s, At(widgets, i), value), widgets, i + 1, value)

\* The tabs of a restored tab area: each widget is hidden and its tab appended.
RECURSIVE RealizeTabs(_, _, _, _)
RealizeTabs(s, b, widgets, i) ==
    IF i >= Len(widgets) THEN s
    ELSE RealizeTabs(
             DockInsertTab(WidgetHide(s, At(widgets, i)), b, Len(Bar(s, b).titles), At(widgets, i)),
             b, widgets, i + 1)

\* The tab bars of a restored layout tree, created in order.
RECURSIVE RealizeArea(_, _)
RECURSIVE RealizeAreasFrom(_, _, _)
RealizeArea(s, node) ==
    IF node.type = "tab-area"
    THEN LET b == Len(s.dockPanel)
             s1 == [s EXCEPT !.dockPanel =
                        Append(@, [titles |-> << >>, currentIndex |-> -1, previousTitle |-> Null])]
         IN DockSetCurrentIndex(RealizeTabs(s1, b, node.widgets, 0), b, node.currentIndex)
    ELSE IF node.type = "split-area" THEN RealizeAreasFrom(s, node.children, 0)
    ELSE s
RealizeAreasFrom(s, children, i) ==
    IF i >= Len(children) THEN s
    ELSE RealizeAreasFrom(RealizeArea(s, At(children, i)), children, i + 1)

\* DockPanel.restoreLayout: the old tab bars are dropped, the old widgets that
\* the new layout does not hold are unparented, the new ones are reparented to
\* the dock panel, and the tab bars of the new layout are created.
DockRestoreLayout(s, config) ==
    LET new == AreaWidgets(config.main)
        Gone(w) == ~Contains(new, w)
        old == SelectSeq(DockWidgets(s), Gone)
    IN RealizeArea(
           SetParentEach(SetParentEach([s EXCEPT !.dockPanel = << >>], old, 0, "none"),
                         new, 0, "main"),
           config.main)

\* ApplicationShell.registerWithFocusTracker
RECURSIVE RegisterWithFocusTracker(_, _)
RECURSIVE TrackEach(_, _, _)
RECURSIVE RegisterEach(_, _, _)
RegisterWithFocusTracker(s, data) ==
    IF IsAbsent(data) THEN s
    ELSE IF "widgets" \in DOMAIN data THEN TrackEach(s, data.widgets, 0)
    ELSE IF "children" \in DOMAIN data THEN RegisterEach(s, data.children, 0)
    ELSE s
TrackEach(s, widgets, i) ==
    IF i >= Len(widgets) THEN s ELSE TrackEach(Track(s, At(widgets, i)), widgets, i + 1)
\* A walk of the children that stops at the first child that registered nothing.
RegisterEachUntilEmpty(s, children, i) ==
    IF i >= Len(children) THEN s
    ELSE IF RegisterWithFocusTracker(s, At(children, i)) = s THEN s
    ELSE RegisterEach(RegisterWithFocusTracker(s, At(children, i)), children, i + 1)
RegisterEach(s, children, i) ==
    IF i >= Len(children) THEN s
    ELSE RegisterEach(RegisterWithFocusTracker(s, At(children, i)), children, i + 1)

\* The loop of setLayoutData over layoutData.mainArea.activeWidgets
RECURSIVE ActivateMainEach(_, _, _)
ActivateMainEach(s, widgets, i) ==
    IF i >= Len(widgets) THEN s
    ELSE ActivateMainEach(ActivateMain(s, WidgetId(At(widgets, i))), widgets, i + 1)

DockLayoutData(main, activeWidgets) ==
    [type |-> "DockLayoutData", main |-> main, activeWidgets |-> activeWidgets]
LayoutData(mainArea, leftBar, rightBar) ==
    [type |-> "LayoutData", mainArea |-> mainArea, leftBar |-> leftBar, rightBar |-> rightBar]

\* ApplicationShell.getLayoutData (the status bar's own data is left out)
GetLayoutData(s) ==
    LayoutData(
        DockLayoutData(SaveLayout(s),
            ArrayOf(IF s.tracker.activeWidget # Null THEN <<s.tracker.activeWidget>> ELSE << >>)),
        SideGetLayoutData(s, "left"),
        SideGetLayoutData(s, "right"))

\* ApplicationShell.setLayoutData: `if (mainArea.activeWidgets) { for ... }`
ActivateListed(s, activeWidgets) ==
    IF activeWidgets.kind # "undefined"
    THEN ActivateMainEach(s, Elems(s, activeWidgets), 0)
    ELSE s

\* ApplicationShell.setLayoutData: `if (layoutData.mainArea) { ... }`
SetMainAreaData(s, mainArea) ==
    IF IsAbsent(mainArea) THEN s
    ELSE ActivateListed(
             RegisterWithFocusTracker(DockRestoreLayout(s, mainArea), mainArea.main),
             mainArea.activeWidgets)

\* ApplicationShell.setLayoutData (the status bar's own data is left out)
SetLayoutData(s, layoutData) ==
    IF IsAbsent(layoutData) THEN s
    ELSE SideSetLayoutData(
             SideSetLayoutData(SetMainAreaData(s, layoutData.mainArea),
                               "left", layoutData.leftBar),
             "right", layoutData.rightBar)

-----------------------------------------------------------------------------
(* FocusTracker: what the browser's focus events do to the tracker          *)

\* A widget can take the focus when it is tracked, attached and shown.
CanFocus(s, w) ==
    /\ w \in s.tracker.widgets
    /\ ~s.isHidden[w]
    /\ \/ s.parent[w] \in {"main", "top"}
       \/ s.parent[w] \in Sides /\ ~s.stackedPanel[s.parent[w]].hidden

CURRENT_CLASS == "theia-mod-current"
ACTIVE_CLASS == "theia-mod-active"

\* `title.className += ` ${CLASS}``, guarded by `if (args.newValue)`: the class
\* name is appended. (A className is kept as the sequence of its class names;
\* the blanks between them are not.)
AddClass(s, widget, class) ==
    IF widget # Null THEN [s EXCEPT !.className[widget] = Append(@, class)] ELSE s

\* `title.className = title.className.replace(CLASS, '')`, guarded by
\* `if (args.oldValue)`: String.replace with a string pattern drops the first
\* occurrence only.
RemoveClass(s, widget, class) ==
    IF widget # Null THEN [s EXCEPT !.className[widget] = ArrayRemove(@, class)] ELSE s

\* Signal.emit: the slots are called at once with args; a slot sees the class
\* names as they are at that moment.
Emit(s, signal, oldValue, newValue) ==
    [s EXCEPT !.log.emitted =
         Append(@, [signal |-> signal, oldValue |-> oldValue, newValue |-> newValue,
                    className |-> s.className])]

\* A handler that leaves the marker on the title of the previous widget.
ShellOnCurrentChangedKeepsOld(s, oldValue, newValue) ==
    Emit(AddClass(s, newValue, CURRENT_CLASS), "currentChanged", oldValue, newValue)

\* ApplicationShell._onCurrentChanged
ShellOnCurrentChanged(s, oldValue, newValue) ==
    Emit(RemoveClass(AddClass(s, newValue, CURRENT_CLASS), oldValue, CURRENT_CLASS),
         "currentChanged", oldValue, newValue)

\* ApplicationShell._onActiveChanged
ShellOnActiveChanged(s, oldValue, newValue) ==
    Emit(RemoveClass(AddClass(s, newValue, ACTIVE_CLASS), oldValue, ACTIVE_CLASS),
         "activeChanged", oldValue, newValue)

\* The tracker's currentChanged signal, connected to _onCurrentChanged by the
\* constructor: emitted when the current widget is another than before.
TrackerCurrentChanged(s, oldValue, newValue) ==
    IF oldValue # newValue THEN ShellOnCurrentChanged(s, oldValue, newValue) ELSE s

\* The tracker's activeChanged signal, connected to _onActiveChanged.
TrackerActiveChanged(s, oldValue, newValue) ==
    IF oldValue # newValue THEN ShellOnActiveChanged(s, oldValue, newValue) ELSE s

\* FocusTracker._setWidgets: both fields are set, then currentChanged and
\* activeChanged are emitted for the field that changed.
SetWidgets(s, current, active) ==
    TrackerActiveChanged(
        TrackerCurrentChanged(
            [s EXCEPT !.tracker.currentWidget = current, !.tracker.activeWidget = active],
            s.tracker.currentWidget, current),
        s.tracker.activeWidget, active)

\* A focus event in a tracked widget: it becomes the current and the active widget.
TrackerFocus(s, w) == SetWidgets(s, w, w)

\* A blur event: no widget is active; the current widget stays.
TrackerBlur(s) == SetWidgets(s, s.tracker.currentWidget, Null)

-----------------------------------------------------------------------------
(* The shell as a state machine                                             *)

\* The state after the constructors of the shell and of its two handlers.
Init ==
    /\ items = [side \in Sides |-> << >>]
    /\ sideBar = [side \in Sides |-> [titles |-> << >>, currentIndex |-> -1, hidden |-> TRUE]]
    /\ stackedPanel = [side \in Sides |-> [widgets |-> << >>, hidden |-> TRUE]]
    /\ bodyAttr = [side \in Sides |-> Null]
    /\ topPanel = << >>
    /\ dockPanel = << >>
    /\ tracker = [widgets |-> {}, currentWidget |-> Null, activeWidget |-> Null]
    /\ parent = [w \in Widgets |-> "none"]
    /\ isHidden = [w \in Widgets |-> FALSE]
    /\ className = [w \in Widgets |-> << >>]
    /\ saves = [w \in Widgets |-> "none"]
    /\ saveAllPromise = "none"

\* options.rank: not given, or 0..MaxRank
RankOptions == {Null} \cup (0 .. MaxRank)

Ids(ws) == {WidgetId(w) : w \in ws}

DoAddToLeftArea(ws) ==
    \E w \in ws, rank \in RankOptions :
        Commit(AddToSideArea(State, "left", w, rank))

DoAddToRightArea(ws) ==
    \E w \in ws, rank \in RankOptions :
        Commit(AddToSideArea(State, "right", w, rank))

DoAddToTopArea(ws) ==
    \E w \in ws : Commit(AddToTopArea(State, w))

DoAddToMainArea(ws) ==
    \E w \in ws : Commit(AddToMainArea(State, w))

\* ApplicationShell.activateLeft
DoActivateLeft(ws) ==
    \E id \in Ids(ws) : Commit(SideActivate(State, "left", id))

\* ApplicationShell.activateRight
DoActivateRight(ws) ==
    \E id \in Ids(ws) : Commit(SideActivate(State, "right", id))

DoActivateMain(ws) ==
    \E id \in Ids(ws) : Commit(ActivateMain(State, id))

\* ApplicationShell.collapseLeft
DoCollapseLeft == Commit(SideCollapse(State, "left"))

\* ApplicationShell.collapseRight
DoCollapseRight == Commit(SideCollapse(State, "right"))

\* The user clicks tab i of a side bar: with allowDeselect the current tab is
\* deselected, any other tab becomes current; the handler of
\* tabActivateRequested activates the owner.
TabClick(s, side, i) ==
    WidgetActivate(
        SideSetCurrentIndex(s, side, IF s.sideBar[side].currentIndex = i THEN -1 ELSE i),
        At(s.sideBar[side].titles, i))

DoTabClick ==
    \E side \in Sides : \E i \in 0 .. Len(sideBar[side].titles) - 1 :
        Commit(TabClick(State, side, i))

\* Some caller closes a widget that is in one of the areas.
DoClose ==
    \E w \in Widgets :
        /\ parent[w] # "none"
        /\ Commit(WidgetClose(State, w))

DoFocus ==
    \E w \in Widgets :
        /\ CanFocus(State, w)
        /\ tracker.activeWidget # w
        /\ Commit(TrackerFocus(State, w))

DoBlur ==
    /\ tracker.activeWidget # Null
    /\ Commit(TrackerBlur(State))

\* The sequences without repetition over the set S, of length at most n.
RECURSIVE Lists(_, _)
Lists(S, n) ==
    IF n = 0 THEN {<< >>}
    ELSE LET shorter == Lists(S, n - 1)
         IN shorter \cup {Append(l, x) : l \in shorter, x \in S}

NoRepeat(l) == \A i, j \in 1 .. Len(l) : i # j => l[i] # l[j]

\* The side bar data setLayoutData is called with, with lists up to length n: absent; a widget list, whose
\* entries may be absent; a list of active widgets; or a widget list with one of
\* its widgets active.
SideBarInputs(ws, n) ==
    LET widgetLists == {l \in Lists(ws \cup {Null}, n) : NoRepeat(l)}
        activeLists == {l \in Lists(ws, n) : NoRepeat(l)}
    IN {UndefinedData}
       \cup {SideBarData(ArrayOf(l), UndefinedArray) : l \in widgetLists}
       \cup {SideBarData(UndefinedArray, ArrayOf(a)) : a \in activeLists}
       \cup UNION {{SideBarData(ArrayOf(l), ArrayOf(<<l[i]>>)) : i \in 1 .. Len(l)} :
                      l \in activeLists}

\* setLayoutData with the data of one side bar, or with no data at all.
DoSetLayoutData(inputs) ==
    \/ \E data \in inputs :
           \/ Commit(SetLayoutData(State, LayoutData(UndefinedData, data, UndefinedData)))
           \/ Commit(SetLayoutData(State, LayoutData(UndefinedData, UndefinedData, data)))
    \/ Commit(SetLayoutData(State, UndefinedData))

\* setLayoutData(getLayoutData())
DoRestoreOwnLayout == Commit(SetLayoutData(State, GetLayoutData(State)))

\* The whole shell: widgets are added to, and moved between, the four areas.
ShellWidgets == 0 .. NumShellWidgets
ShellInputs == SideBarInputs(ShellWidgets, 1)

Next ==
    \/ DoAddToLeftArea(ShellWidgets)
    \/ DoAddToRightArea(ShellWidgets)
    \/ DoAddToTopArea(ShellWidgets)
    \/ DoAddToMainArea(ShellWidgets)
    \/ DoActivateLeft(ShellWidgets)
    \/ DoActivateRight(ShellWidgets)
    \/ DoActivateMain(ShellWidgets)
    \/ DoCollapseLeft
    \/ DoCollapseRight
    \/ DoTabClick
    \/ DoClose
    \/ DoSetLayoutData(ShellInputs)
    \/ DoRestoreOwnLayout

Spec == Init /\ [][Next]_vars

\* The two side bars alone.
SideBarWidgets == 0 .. NumWidgets
SideBarOnlyInputs == SideBarInputs(SideBarWidgets, MaxListLen)

NextSideBar ==
    \/ DoAddToLeftArea(SideBarWidgets)
    \/ DoAddToRightArea(SideBarWidgets)
    \/ DoActivateLeft(SideBarWidgets)
    \/ DoActivateRight(SideBarWidgets)
    \/ DoCollapseLeft
    \/ DoCollapseRight
    \/ DoTabClick
    \/ DoClose
    \/ DoSetLayoutData(SideBarOnlyInputs)
    \/ DoRestoreOwnLayout

SpecSideBar == Init /\ [][NextSideBar]_vars

-----------------------------------------------------------------------------
(* The dock panel's tab groups                                              *)

\* The ways to cut k tabs into at most g non-empty groups: sequences of sizes.
RECURSIVE Compositions(_, _)
Compositions(k, g) ==
    IF k = 0 THEN {<< >>}
    ELSE IF g = 0 THEN {}
    ELSE UNION {{<<n>> \o c : c \in Compositions(k - n, g - 1)} : n \in 1 .. k}

\* Tab areas of the given sizes over the widgets first, first + 1, ..., each with
\* any of its tabs current.
RECURSIVE TabAreasOf(_, _)
TabAreasOf(first, sizes) ==
    IF sizes = << >> THEN {<< >>}
    ELSE LET n == sizes[1]
             widgets == [i \in 1 .. n |-> first + i - 1]
         IN {<<TabArea(widgets, ci)>> \o rest :
                ci \in 0 .. n - 1, rest \in TabAreasOf(first + n, Tail(sizes))}

\* The dock layouts setLayoutData is called with: the widgets 1..k in at most
\* MaxGroups tab areas.
TabLayouts ==
    UNION {UNION {{IF Len(areas) = 0 THEN NullArea
                   ELSE IF Len(areas) = 1 THEN areas[1]
                   ELSE SplitArea(areas) :
                       areas \in TabAreasOf(1, sizes)} :
                     sizes \in Compositions(k, MaxGroups)} :
             k \in 0 .. NumTabWidgets}

TabWidgets == 1 .. NumTabWidgets

\* setLayoutData with the data of the main area alone, on an empty dock panel.
DoRestoreMain ==
    \E main \in TabLayouts, activeWidgets \in {UndefinedArray, ArrayOf(<<1>>)} :
        /\ dockPanel = << >>
        /\ Commit(SetLayoutData(State,
                   LayoutData(DockLayoutData(main, activeWidgets), UndefinedData, UndefinedData)))

DoActivateNextTab == Commit(ActivateNextTab(State))

DoActivatePreviousTab == Commit(ActivatePreviousTab(State))

DoCloseTab == Commit(CloseTab(State))

DoCloseRightTabs == Commit(CloseRightTabs(State))

DoCloseOtherTabs == Commit(CloseOtherTabs(State))

DoCloseAllTabs == Commit(CloseAllTabs(State))

DoCloseAll == Commit(CloseAll(State))

NextTabs ==
    \/ DoRestoreMain
    \/ DoFocus
    \/ DoBlur
    \/ DoActivateMain(TabWidgets)
    \/ DoActivateNextTab
    \/ DoActivatePreviousTab
    \/ DoCloseTab
    \/ DoCloseRightTabs
    \/ DoCloseOtherTabs
    \/ DoCloseAllTabs
    \/ DoCloseAll

SpecTabs == Init /\ [][NextTabs]_vars

-----------------------------------------------------------------------------
(* Saving                                                                   *)

\* Promise.all over the given promises: rejected as soon as one of them is
\* rejected, fulfilled once all of them are fulfilled, pending otherwise.
PromiseAll(promises) ==
    IF "rejected" \in promises THEN "rejected"
    ELSE IF "pending" \in promises THEN "pending"
    ELSE "fulfilled"

\* The promises saveAll waits for.
SavePromises(s) == {s.saves[w] : w \in {v \in Widgets : s.saves[v] # "none"}}

\* ApplicationShell.saveAll up to its await: Saveable.save is called for every
\* tracked widget, which starts the widget's asynchronous save, and the caller
\* gets a promise that follows Promise.all of the saves.
SaveAll(s) ==
    [s EXCEPT !.saves = [w \in Widgets |->
                            IF w \in s.tracker.widgets THEN "pending" ELSE "none"],
              !.saveAllPromise = IF s.tracker.widgets = {} THEN "fulfilled" ELSE "pending"]

\* The asynchronous save of a widget ends, with success or with failure; the
\* promise of saveAll, while pending, takes the state of Promise.all.
SaveSettled(s, w, outcome) ==
    [s EXCEPT !.saves[w] = outcome,
              !.saveAllPromise =
                  IF @ = "pending"
                  THEN PromiseAll(SavePromises([s EXCEPT !.saves[w] = outcome]))
                  ELSE @]

\* saveAll is called while no earlier call of it is pending.
DoSaveAll ==
    /\ saveAllPromise # "pending"
    /\ Commit(SaveAll(State))

DoSaveSettled ==
    \E w \in Widgets, outcome \in {"fulfilled", "rejected"} :
        /\ saves[w] = "pending"
        /\ Commit(SaveSettled(State, w, outcome))

\* The main area with its focus tracker and the save operations.
SaveWidgets == 0 .. NumSaveWidgets

NextSave ==
    \/ DoAddToMainArea(SaveWidgets)
    \/ DoFocus
    \/ DoBlur
    \/ DoClose
    \/ DoSaveAll
    \/ DoSaveSettled

SpecSave == Init /\ [][NextSave]_vars

-----------------------------------------------------------------------------
(* Registering the widgets of a layout tree                                 *)

RegisterWidgets == 1 .. NumRegisterWidgets

\* A node that has neither `widgets` nor `children`.
UnknownNode == [type |-> "unknown"]

\* The nodes without children: absent, unknown, and the leaves with up to two
\* of the widgets.
FlatNodes ==
    {NullArea, UnknownNode}
    \cup {TabArea(l, 0) : l \in {m \in Lists(RegisterWidgets, 2) : NoRepeat(m)}}

\* The sequences of up to MaxChildren nodes of which one is taken from deep and
\* the others are flat.
ChildLists(deep) ==
    UNION {{[i \in 1 .. n |-> IF i = k THEN d ELSE f[i]] :
               k \in 1 .. n, d \in deep, f \in [1 .. n -> FlatNodes]} :
           n \in 1 .. MaxChildren}

\* The layout trees with at most depth levels of branches.
RECURSIVE Trees(_)
Trees(depth) ==
    IF depth = 0 THEN FlatNodes
    ELSE FlatNodes \cup {SplitArea(<< >>)}
         \cup {SplitArea(c) : c \in ChildLists(Trees(depth - 1))}

LayoutTrees == Trees(MaxTreeDepth)

\* registerWithFocusTracker is called with a layout tree.
DoRegister ==
    \E tree \in LayoutTrees : Commit(RegisterWithFocusTracker(State, tree))

NextRegister ==
    \/ DoRegister
    \/ DoAddToMainArea(RegisterWidgets)
    \/ DoAddToTopArea(RegisterWidgets)
    \/ DoFocus
    \/ DoBlur
    \/ DoClose

SpecRegister == Init /\ [][NextRegister]_vars

-----------------------------------------------------------------------------
(* Properties                                                               *)

\* The ranks a side bar item can have: given, the default, or set by a restore.
AllRanks == (0 .. MaxRank) \cup {DefaultRank} \cup (0 .. MaxListLen)

RanksOf(its) == [i \in 1 .. Len(its) |-> its[i].rank]
WidgetsOf(its) == [i \in 1 .. Len(its) |-> its[i].widget]

NonDecreasing(ranks) == \A i, j \in 1 .. Len(ranks) : i < j => ranks[i] <= ranks[j]

\* addWidget(widget, rank) puts the new item after every item of rank <= rank and
\* before every item of greater rank, and leaves the other items as they were.
InsertedStably(s, side, widget, rank) ==
    LET r == SideAddWidget(s, side, widget, rank)
        before == ArrayRemoveAt(s.items[side], FindWidgetIndex(s, side, widget))
        after == r.items[side]
        k == FindWidgetIndex(r, side, widget)
    IN /\ k # -1
       /\ At(after, k).rank = rank
       /\ ArrayRemoveAt(after, k) = before
       /\ \A i \in 0 .. Len(after) - 1 :
              /\ i < k => At(after, i).rank <= rank
              /\ i > k => At(after, i).rank > rank

\* C1: in every reachable state the items of each side bar are in non-decreasing
\* rank order; every addWidget places the new item after all items of the same
\* or a lower rank (so after every equal-rank item added earlier) and keeps the
\* order of the others; ranks 50, 10, 30 added to an empty side bar end as
\* 10, 30, 50.
C1_RankOrder ==
    \A side \in Sides :
        /\ NonDecreasing(RanksOf(items[side]))
        /\ \A w \in SideBarWidgets, rank \in AllRanks : InsertedStably(State, side, w, rank)
        /\ items[side] = << >> =>
               LET r == SideAddWidget(SideAddWidget(SideAddWidget(State, side, 1, 50),
                                                    side, 2, 10), side, 0, 30)
               IN /\ RanksOf(r.items[side]) = <<10, 30, 50>>
                  /\ WidgetsOf(r.items[side]) = <<2, 0, 1>>

\* C1 witness: widget 2 was added with rank 0 to a side bar holding widget 1 with
\* rank 0 and widget 0 with rank 1, and stands between them.
C1_Witness ==
    \E side \in Sides :
        /\ WidgetsOf(items[side]) = <<1, 2, 0>>
        /\ RanksOf(items[side]) = <<0, 0, 1>>

\* One call of activateNextTab followed by the focus event of the widget it
\* activated last.
NextTabThenFocus(s) ==
    LET r == ActivateNextTab([s EXCEPT !.log = NoEffects])
        n == Len(r.log.activated)
    IN IF n > 0 /\ CanFocus(r, r.log.activated[n]) THEN TrackerFocus(r, r.log.activated[n]) ELSE r

\* The tab group of the current widget and the widget's index in it.
CurrentPosition(s) ==
    IF CurrentTabBar(s) = -1 THEN <<-1, -1>>
    ELSE <<CurrentTabBar(s), IndexOf(Bar(s, CurrentTabBar(s)).titles, s.tracker.currentWidget)>>

\* What activateNextTab does when index i of group g is the one it starts from.
AdvancesFrom(s, g, i) ==
    LET r == ActivateNextTab(s)
        G == Len(s.dockPanel)
        last == Len(Bar(s, g).titles) - 1
        g2 == (g + 1) % G
        target == IF i < last THEN <<g, i + 1>> ELSE <<g2, 0>>
        owner == At(Bar(s, target[1]).titles, target[2])
    IN /\ Bar(r, target[1]).currentIndex = target[2]
       /\ r.log.activated = <<owner>>
       /\ ~r.isHidden[owner]
       /\ \A b \in 0 .. G - 1 :
              /\ Bar(r, b).titles = Bar(s, b).titles
              /\ b # target[1] => Bar(r, b).currentIndex = Bar(s, b).currentIndex
       /\ r.tracker = s.tracker

\* C2 (amended): when the tab group g that holds the current widget has the
\* valid current index i, activateNextTab selects (g, i+1) if i is not the last
\* index of g and index 0 of group (g+1) mod G if it is, and requests the
\* activation of the owner of the tab it selected, and of no other widget; no tab
\* moves and no other group's selection changes. With groups sized 3 and 2 and
\* the current widget selected at (0,0), five calls, each followed by the focus
\* event of the activated widget, visit (0,1), (0,2), (1,0), (1,1), (0,0).
C2_NextTab ==
    LET g == CurrentTabBar(State)
    IN /\ g # -1 /\ Bar(State, g).currentIndex # -1 =>
              AdvancesFrom(State, g, Bar(State, g).currentIndex)
       /\ /\ Len(dockPanel) = 2
          /\ Len(Bar(State, 0).titles) = 3
          /\ Len(Bar(State, 1).titles) = 2
          /\ Bar(State, 0).currentIndex = 0
          /\ CurrentPosition(State) = <<0, 0>>
          => LET s1 == NextTabThenFocus(State)
                 s2 == NextTabThenFocus(s1)
                 s3 == NextTabThenFocus(s2)
                 s4 == NextTabThenFocus(s3)
                 s5 == NextTabThenFocus(s4)
             IN <<CurrentPosition(s1), CurrentPosition(s2), CurrentPosition(s3),
                  CurrentPosition(s4), CurrentPosition(s5)>>
                    = <<<<0, 1>>, <<0, 2>>, <<1, 0>>, <<1, 1>>, <<0, 0>>>>

\* C2 witness: the current widget is the selected last tab of the second of two
\* groups, and activateNextTab wraps to the first tab of the first group, which
\* was not selected before.
C2_Witness ==
    /\ Len(dockPanel) = 2
    /\ Len(Bar(State, 0).titles) = 3
    /\ CurrentPosition(State) = <<1, 1>>
    /\ Bar(State, 1).currentIndex = 1
    /\ Bar(State, 0).currentIndex = 2
    /\ Bar(ActivateNextTab(State), 0).currentIndex = 0
    /\ ActivateNextTab(State).log.activated = <<At(Bar(State, 0).titles, 0)>>

\* C2 as stated: the index activateNextTab starts from is the index at which the
\* current widget sits in its tab group.
C2_Original ==
    LET g == CurrentTabBar(State)
    IN g # -1 => AdvancesFrom(State, g, CurrentPosition(State)[2])

\* What a caller can observe of the arrangement: the widgets of each side bar in
\* order, the expanded widget of each side bar, the tab groups of the main area.
Observable(s) ==
    [sides |-> [side \in Sides |->
                   [widgets |-> WidgetsOf(s.items[side]),
                    tabs |-> s.sideBar[side].titles,
                    stack |-> s.stackedPanel[side].widgets,
                    active |-> CurrentTitle(s.sideBar[side])]],
     main |-> [b \in 1 .. Len(s.dockPanel) |->
                   [widgets |-> s.dockPanel[b].titles, current |-> CurrentTitle(s.dockPanel[b])]],
     top |-> s.topPanel]

\* C3: in every reachable state, setLayoutData(getLayoutData()) leaves the
\* observable arrangement as it was: the same widgets in each area in the same
\* order, and the same expanded widget, or none, in each side bar.
C3_RoundTrip == Observable(SetLayoutData(State, GetLayoutData(State))) = Observable(State)

\* The elements of array from index from to index to (0-based, inclusive).
Slice(array, from, to) == SubSeq(array, from + 1, to + 1)

\* The tab bars other than bar g are as they were.
OtherBarsKept(s, r, g) ==
    /\ Len(r.dockPanel) = Len(s.dockPanel)
    /\ \A b \in 0 .. Len(s.dockPanel) - 1 : b # g => Bar(r, b) = Bar(s, b)

\* C4: closeRightTabs, when the current tab group has the valid current index c,
\* closes the widgets at the indices above c, each once and in tab order, and no
\* other widget, and raises no error; afterwards the group holds the tabs that
\* were at indices 0..c, in their order, with the same tab current.
C4_CloseRightTabs ==
    LET g == CurrentTabBar(State)
    IN g # -1 /\ Bar(State, g).currentIndex # -1 =>
           LET titles == Bar(State, g).titles
               c == Bar(State, g).currentIndex
               r == CloseRightTabs(State)
           IN /\ r.log.closed = Slice(titles, c + 1, Len(titles) - 1)
              /\ ~r.log.thrown
              /\ Bar(r, g).titles = Slice(titles, 0, c)
              /\ Bar(r, g).currentIndex = c
              /\ OtherBarsKept(State, r, g)
              /\ \A w \in Widgets : r.parent[w] = IF Contains(r.log.closed, w) THEN "none" ELSE parent[w]

\* C4 witness: the current tab group has five tabs and the second is current;
\* closeRightTabs closes the last three.
C4_Witness ==
    LET g == CurrentTabBar(State)
    IN /\ g # -1
       /\ Len(Bar(State, g).titles) = 5
       /\ Bar(State, g).currentIndex = 1
       /\ Len(CloseRightTabs(State).log.closed) = 3
       /\ Len(Bar(CloseRightTabs(State), g).titles) = 2

\* C5: closeOtherTabs, when the current tab group has N tabs and the valid
\* current index c, closes each of the other N-1 widgets once, in tab order, and
\* raises no error; afterwards the group holds one tab, the one that was at
\* index c, and it is current.
C5_CloseOtherTabs ==
    LET g == CurrentTabBar(State)
    IN g # -1 /\ Bar(State, g).currentIndex # -1 =>
           LET titles == Bar(State, g).titles
               c == Bar(State, g).currentIndex
               r == CloseOtherTabs(State)
           IN /\ r.log.closed = ArrayRemoveAt(titles, c)
              /\ Len(r.log.closed) = Len(titles) - 1
              /\ ~r.log.thrown
              /\ Bar(r, g).titles = <<At(titles, c)>>
              /\ Bar(r, g).currentIndex = 0
              /\ ~r.isHidden[At(titles, c)]
              /\ OtherBarsKept(State, r, g)

\* C5 witness: the current tab group has four tabs and the one at index 2 is
\* current; closeOtherTabs closes the three others.
C5_Witness ==
    LET g == CurrentTabBar(State)
    IN /\ g # -1
       /\ Len(Bar(State, g).titles) = 4
       /\ Bar(State, g).currentIndex = 2
       /\ Len(CloseOtherTabs(State).log.closed) = 3
       /\ Bar(CloseOtherTabs(State), g).titles = <<At(Bar(State, g).titles, 2)>>

\* C6: closeAllTabs on a current tab group with N tabs closes N times, each time
\* the widget then first in the group (so the tabs in their order), raises no
\* error, and leaves the group without tabs: the group is gone from the dock
\* panel and none of its widgets is in any group.
C6_CloseAllTabs ==
    LET g == CurrentTabBar(State)
    IN g # -1 =>
           LET titles == Bar(State, g).titles
               r == CloseAllTabs(State)
           IN /\ r.log.closed = titles
              /\ ~r.log.thrown
              /\ r.dockPanel = ArrayRemoveAt(dockPanel, g)
              /\ \A i \in 0 .. Len(titles) - 1 :
                     /\ FindTabBar(r, At(titles, i)) = -1
                     /\ r.parent[At(titles, i)] = "none"

\* C6 witness: the current tab group is the first of two and has three tabs;
\* closeAllTabs closes three widgets and one group is left.
C6_Witness ==
    LET g == CurrentTabBar(State)
    IN /\ g = 0
       /\ Len(dockPanel) = 2
       /\ Len(Bar(State, g).titles) = 3
       /\ Len(CloseAllTabs(State).log.closed) = 3
       /\ Len(CloseAllTabs(State).dockPanel) = 1

\* The operation changed no part of the state, raised no error and logged one
\* diagnostic.
RejectedWithDiagnostic(r) ==
    /\ [r EXCEPT !.log = NoEffects] = State
    /\ r.log = [NoEffects EXCEPT !.errors = 1]

\* C7: in every reachable state, addToLeftArea, addToRightArea (with any rank
\* option), addToTopArea and addToMainArea called with the widget whose id is
\* empty leave the side bars, the top panel, the dock panel, the tracked widgets
\* and the widget's parent as they were, raise no error, and log one diagnostic.
C7_EmptyIdRejected ==
    \A w \in {v \in Widgets : WidgetId(v) = EmptyId} :
        /\ \A side \in Sides, rank \in RankOptions :
               RejectedWithDiagnostic(AddToSideArea(State, side, w, rank))
        /\ RejectedWithDiagnostic(AddToTopArea(State, w))
        /\ RejectedWithDiagnostic(AddToMainArea(State, w))

\* C7 witness: the widget without id was put into the left side bar by a
\* restore and is expanded there, next to a widget in the main area; an add of
\* it to the right side bar logs a diagnostic and leaves it where it is.
C7_Witness ==
    /\ parent[0] = "left"
    /\ CurrentTitle(sideBar["left"]) = 0
    /\ dockPanel # << >>
    /\ AddToSideArea(State, "right", 0, Null).log.errors = 1
    /\ AddToSideArea(State, "right", 0, Null).parent[0] = "left"

\* The widgets of the side's stacked panel that are shown.
ShownSlots(s, side) ==
    {i \in 1 .. Len(s.stackedPanel[side].widgets) : ~s.isHidden[s.stackedPanel[side].widgets[i]]}

\* C8: in every reachable state, activate(id) with the id of a widget of the side
\* bar leaves the side bar expanded on that widget: its tab is current, the
\* stacked panel is visible, the widget is shown and asked to activate, and every
\* other widget of the stack is hidden, so that one slot is shown; whichever
\* widget was expanded before.
C8_ActivateShowsOne ==
    \A side \in Sides, id \in Ids(SideBarWidgets) :
        LET w == FindWidgetByID(State, side, id)
            r == SideActivate(State, side, id)
            stack == r.stackedPanel[side].widgets
        IN w # Null =>
               /\ CurrentTitle(r.sideBar[side]) = w
               /\ ~r.stackedPanel[side].hidden
               /\ ~r.isHidden[w]
               /\ \A i \in 1 .. Len(stack) : stack[i] # w => r.isHidden[stack[i]]
               /\ Cardinality(ShownSlots(r, side)) = 1
               /\ stack = stackedPanel[side].widgets
               /\ r.log.activated = <<w>>

\* C8 witness: the left side bar holds three widgets and is expanded on the
\* first; activate with the id of the last one shows the last one alone.
C8_Witness ==
    /\ Len(items["left"]) = 3
    /\ sideBar["left"].currentIndex = 0
    /\ ~isHidden[items["left"][1].widget]
    /\ LET w == items["left"][3].widget
           r == SideActivate(State, "left", WidgetId(w))
       IN /\ ~r.isHidden[w]
          /\ r.isHidden[items["left"][1].widget]
          /\ r.sideBar["left"].currentIndex = 2

\* The marker of the side: the id of the expanded widget, absent when collapsed.
MarkerFollows(s, side) ==
    s.bodyAttr[side] = IF CurrentTitle(s.sideBar[side]) # Null
                       THEN WidgetId(CurrentTitle(s.sideBar[side]))
                       ELSE Null

\* C9: in every reachable state and for each side, the marker keyed by the side
\* is the id of the expanded widget when a tab is current and is absent when
\* none is; collapse() after activate(id), and the removal of the expanded
\* widget, leave the side without current tab and the marker absent.
C9_Marker ==
    \A side \in Sides :
        /\ MarkerFollows(State, side)
        /\ \A id \in Ids(SideBarWidgets) :
               LET w == FindWidgetByID(State, side, id)
                   expanded == SideActivate(State, side, id)
                   collapsed == SideCollapse(expanded, side)
                   removed == WidgetClose(expanded, w)
               IN w # Null =>
                      /\ expanded.bodyAttr[side] = id
                      /\ collapsed.bodyAttr[side] = Null
                      /\ CurrentTitle(collapsed.sideBar[side]) = Null
                      /\ removed.bodyAttr[side] = Null
                      /\ CurrentTitle(removed.sideBar[side]) = Null
                      /\ ~Contains(removed.sideBar[side].titles, w)

\* C9 witness: the left side bar is expanded on widget 2 and carries its id as
\* marker, the right side bar holds widget 1 collapsed and carries no marker.
C9_Witness ==
    /\ CurrentTitle(sideBar["left"]) = 2
    /\ bodyAttr["left"] = WidgetId(2)
    /\ Len(items["left"]) > 1
    /\ WidgetsOf(items["right"]) = <<1>>
    /\ CurrentTitle(sideBar["right"]) = Null
    /\ bodyAttr["right"] = Null

\* C10: in every reachable state of a side bar, from the initial state with
\* strip and stack hidden, the tab strip is hidden exactly when it has no tabs,
\* and the stacked panel is hidden exactly when no tab is current; a strip with
\* tabs is visible whether the side bar is collapsed or expanded.
C10_Visibility ==
    \A side \in Sides :
        /\ sideBar[side].hidden <=> (Len(sideBar[side].titles) = 0)
        /\ stackedPanel[side].hidden <=> (CurrentTitle(sideBar[side]) = Null)

\* C10 witness: the left strip has tabs and is visible with the stack hidden
\* (collapsed), the right strip has tabs and is visible with the stack visible
\* (expanded).
C10_Witness ==
    /\ Len(sideBar["left"].titles) > 0
    /\ ~sideBar["left"].hidden
    /\ stackedPanel["left"].hidden
    /\ Len(sideBar["right"].titles) > 0
    /\ ~sideBar["right"].hidden
    /\ ~stackedPanel["right"].hidden

\* The side bar is collapsed: no tab is current and the stacked panel is hidden.
Collapsed(s, side) ==
    /\ CurrentTitle(s.sideBar[side]) = Null
    /\ s.stackedPanel[side].hidden

\* The calls that take widget w out of the stack of the side it is in: a close,
\* a move to another area, and a new add to the same side with any rank.
RemovalsOf(s, side, w) ==
    {WidgetClose(s, w)}
    \cup (IF WidgetId(w) = EmptyId THEN {}
          ELSE {AddToSideArea(s, to, w, rank) : to \in Sides, rank \in RankOptions}
               \cup {AddToTopArea(s, w), AddToMainArea(s, w)})

\* C11: in every reachable state and for each side bar, the current tab, if any,
\* is the title of exactly one item of the item sequence; and when the widget
\* that owns the current tab is taken out of the stack, by a close, by a move
\* to another area or by a new add to the same side, the current tab is null
\* and the side bar is collapsed.
C11_CurrentTabOwned ==
    \A side \in Sides :
        LET w == CurrentTitle(sideBar[side])
        IN w # Null =>
               /\ Cardinality({i \in Indices(items[side]) :
                                  At(items[side], i).widget = w}) = 1
               /\ \A r \in RemovalsOf(State, side, w) : Collapsed(r, side)

\* C11 witness: the left side bar holds two widgets and is expanded on the
\* first, which has an id; closing it and adding it again both leave the side
\* bar collapsed with the other widget's tab still there.
C11_Witness ==
    /\ Len(items["left"]) = 2
    /\ sideBar["left"].currentIndex = 0
    /\ ~stackedPanel["left"].hidden
    /\ LET w == items["left"][1].widget
       IN /\ WidgetId(w) # EmptyId
          /\ Collapsed(WidgetClose(State, w), "left")
          /\ Len(WidgetClose(State, w).items["left"]) = 1
          /\ Collapsed(AddToSideArea(State, "left", w, Null), "left")
          /\ Len(AddToSideArea(State, "left", w, Null).items["left"]) = 2

\* What activatePreviousTab does when index i of group g is the one it starts from.
RetreatsFrom(s, g, i) ==
    LET r == ActivatePreviousTab(s)
        G == Len(s.dockPanel)
        g2 == (g + G - 1) % G
        target == IF i > 0 THEN <<g, i - 1>> ELSE <<g2, Len(Bar(s, g2).titles) - 1>>
        owner == At(Bar(s, target[1]).titles, target[2])
    IN /\ Bar(r, target[1]).currentIndex = target[2]
       /\ r.log.activated = <<owner>>
       /\ ~r.isHidden[owner]
       /\ \A b \in 0 .. G - 1 :
              /\ Bar(r, b).titles = Bar(s, b).titles
              /\ b # target[1] => Bar(r, b).currentIndex = Bar(s, b).currentIndex
       /\ r.tracker = s.tracker

\* C12 (amended): when the tab group g that holds the current widget has the
\* valid current index i, activatePreviousTab selects (g, i-1) if i > 0 and the
\* last index of group (g-1) mod G if i = 0 (the last group when g is the
\* first), and requests the activation of the owner of the tab it selected, and
\* of no other widget; no tab moves and no other group's selection changes.
C12_PreviousTab ==
    LET g == CurrentTabBar(State)
    IN g # -1 /\ Bar(State, g).currentIndex # -1 =>
           RetreatsFrom(State, g, Bar(State, g).currentIndex)

\* C12 witness: the current widget is the selected first tab of the first of two
\* groups, and activatePreviousTab wraps to the last tab of the last group,
\* which was not selected before.
C12_Witness ==
    /\ Len(dockPanel) = 2
    /\ Len(Bar(State, 1).titles) = 3
    /\ CurrentPosition(State) = <<0, 0>>
    /\ Bar(State, 0).currentIndex = 0
    /\ Bar(State, 1).currentIndex = 0
    /\ Bar(ActivatePreviousTab(State), 1).currentIndex = 2
    /\ ActivatePreviousTab(State).log.activated = <<At(Bar(State, 1).titles, 2)>>

\* C12 as stated: the index activatePreviousTab starts from is the index at
\* which the current widget sits in its tab group.
C12_Original ==
    LET g == CurrentTabBar(State)
    IN g # -1 => RetreatsFrom(State, g, CurrentPosition(State)[2])

\* C13: whenever the promise of saveAll is settled, with success or with
\* failure, the save of no tracked widget that saveAll started is still pending.
C13_SaveAllWaits ==
    saveAllPromise \in {"fulfilled", "rejected"} =>
        \A w \in Widgets : saves[w] # "pending"

\* How many times a title's className holds the class.
Occurrences(names, class) == Cardinality({i \in 1 .. Len(names) : names[i] = class})

\* C14: for each of the two markers, in every reachable state no title holds
\* the marker more than once; applying the marker to a title that holds it
\* leaves it held once; and one removal from a title that holds it leaves the
\* title without it.
C14_MarkerIdempotent ==
    \A class \in {CURRENT_CLASS, ACTIVE_CLASS}, w \in Widgets :
        /\ Occurrences(className[w], class) <= 1
        /\ Occurrences(className[w], class) = 1 =>
               /\ Occurrences(AddClass(State, w, class).className[w], class) = 1
               /\ Occurrences(RemoveClass(State, w, class).className[w], class) = 0

\* The title of widget w holds the class in the class names given (Null has no title).
Marked(names, w, class) == w # Null /\ Occurrences(names[w], class) >= 1

\* The change of one tracker field from p to n was handled in r: n's title holds
\* the marker and p's does not; when p and n differ, one notification of the
\* signal was emitted, with p and n, to slots that see both marker updates done;
\* when they do not differ, none was emitted.
Bridged(r, signal, class, p, n) ==
    LET sent == SelectSeq(r.log.emitted, LAMBDA e : e.signal = signal)
    IN /\ n # Null => Occurrences(r.className[n], class) = 1
       /\ p # n => ~Marked(r.className, p, class)
       /\ IF p = n THEN sent = << >>
          ELSE /\ Len(sent) = 1
               /\ sent[1].oldValue = p
               /\ sent[1].newValue = n
               /\ n # Null => Marked(sent[1].className, n, class)
               /\ ~Marked(sent[1].className, p, class)

\* In state s the titles that hold the marker are exactly those of the widgets given.
MarkedExactly(s, class, ws) ==
    \A w \in Widgets : Occurrences(s.className[w], class) = IF w \in ws THEN 1 ELSE 0

\* C15: for every focus event and every blur event the tracker can report in a
\* reachable state, with previous widget p and new widget n of the current
\* (respectively active) field: after the shell has handled it, n's title holds
\* the current (respectively active) marker and p's does not, and one public
\* notification with the same p and n was emitted, within the call and after
\* both marker updates; and in every reachable state the only title holding the
\* current marker is that of the tracker's current widget (likewise for the
\* active marker and the active widget).
C15_FocusBridged ==
    /\ MarkedExactly(State, CURRENT_CLASS, {tracker.currentWidget})
    /\ MarkedExactly(State, ACTIVE_CLASS, {tracker.activeWidget})
    /\ \A n \in Widgets :
           CanFocus(State, n) =>
               /\ Bridged(TrackerFocus(State, n), "currentChanged", CURRENT_CLASS,
                          tracker.currentWidget, n)
               /\ Bridged(TrackerFocus(State, n), "activeChanged", ACTIVE_CLASS,
                          tracker.activeWidget, n)
               /\ Len(TrackerFocus(State, n).log.emitted) <= 2
    /\ Bridged(TrackerBlur(State), "activeChanged", ACTIVE_CLASS, tracker.activeWidget, Null)
    /\ Bridged(TrackerBlur(State), "currentChanged", CURRENT_CLASS,
               tracker.currentWidget, tracker.currentWidget)

\* C15 witness: a widget is current and active and holds both markers, and the
\* focus moves to another widget of the main area, which takes both markers
\* from it with one notification of each signal.
C15_Witness ==
    \E p, n \in Widgets :
        /\ p # n
        /\ tracker.currentWidget = p
        /\ tracker.activeWidget = p
        /\ className[p] = <<CURRENT_CLASS, ACTIVE_CLASS>>
        /\ CanFocus(State, n)
        /\ TrackerFocus(State, n).className[n] = <<CURRENT_CLASS, ACTIVE_CLASS>>
        /\ TrackerFocus(State, n).className[p] = << >>
        /\ Len(TrackerFocus(State, n).log.emitted) = 2

\* The areas that hold widget w in state s: a side bar holds it when it has an
\* item, a tab or a stack slot for it.
AreasOf(s, w) ==
    {side \in Sides : \/ Contains(WidgetsOf(s.items[side]), w)
                      \/ Contains(s.sideBar[side].titles, w)
                      \/ Contains(s.stackedPanel[side].widgets, w)}
    \cup (IF Contains(s.topPanel, w) THEN {"top"} ELSE {})
    \cup (IF Contains(DockWidgets(s), w) THEN {"main"} ELSE {})

\* The side bar holds w with one item, one tab and one stack slot.
HeldOnce(s, side, w) ==
    /\ Occurrences(WidgetsOf(s.items[side]), w) = 1
    /\ Occurrences(s.sideBar[side].titles, w) = 1
    /\ Occurrences(s.stackedPanel[side].widgets, w) = 1

\* setLayoutData with a main area that is one tab group holding w alone.
RestoreIntoMain(s, w) ==
    SetLayoutData(s, LayoutData(DockLayoutData(TabArea(<<w>>, 0), UndefinedArray),
                                UndefinedData, UndefinedData))

\* C16: in every reachable state of the shell every widget is in at most one of
\* the four areas, the one that is its parent; and an add of a widget with an id
\* to any area, and a restore of it into a side bar or into the main area,
\* leaves it in that area alone, with no item, tab or stack slot in the side bar
\* that held it before.
C16_OneArea ==
    \A w \in ShellWidgets :
        /\ AreasOf(State, w) = IF parent[w] = "none" THEN {} ELSE {parent[w]}
        /\ \A side \in Sides :
               /\ side \in AreasOf(State, w) => HeldOnce(State, side, w)
               /\ AreasOf(SetLayoutData(State,
                      LayoutData(UndefinedData,
                                 IF side = "left"
                                 THEN SideBarData(ArrayOf(<<w>>), UndefinedArray)
                                 ELSE UndefinedData,
                                 IF side = "right"
                                 THEN SideBarData(ArrayOf(<<w>>), UndefinedArray)
                                 ELSE UndefinedData)), w) = {side}
        /\ AreasOf(RestoreIntoMain(State, w), w) = {"main"}
        /\ WidgetId(w) # EmptyId =>
               /\ \A side \in Sides, rank \in RankOptions :
                      /\ AreasOf(AddToSideArea(State, side, w, rank), w) = {side}
                      /\ HeldOnce(AddToSideArea(State, side, w, rank), side, w)
               /\ AreasOf(AddToTopArea(State, w), w) = {"top"}
               /\ AreasOf(AddToMainArea(State, w), w) = {"main"}

\* C16 witness: a widget is expanded in the left side bar next to another one;
\* added to the main area it is in the main area alone and the left side bar
\* keeps one item; added to the right side bar it is in the right side bar alone.
C16_Witness ==
    \E w \in ShellWidgets :
        /\ WidgetId(w) # EmptyId
        /\ CurrentTitle(sideBar["left"]) = w
        /\ Len(items["left"]) = 2
        /\ AreasOf(State, w) = {"left"}
        /\ AreasOf(AddToMainArea(State, w), w) = {"main"}
        /\ Len(AddToMainArea(State, w).items["left"]) = 1
        /\ AreasOf(AddToSideArea(State, "right", w, Null), w) = {"right"}

\* The ids of the widgets in the sequence.
IdsIn(widgets) == {WidgetId(widgets[i]) : i \in 1 .. Len(widgets)}

\* C17: in every reachable state, activateLeft(id) and activateRight(id) with an
\* id that no item of that side bar has, and activateMain(id) with an id that no
\* widget of the dock panel has, change nothing: the current tab and the
\* visibility of each side bar, the visibility of every widget, the markers, the
\* tab groups and the focus state are as before, no widget is asked to activate
\* and no error is raised.
C17_UnknownIdNoOp ==
    \A id \in Ids(Widgets) :
        /\ \A side \in Sides :
               id \notin IdsIn(WidgetsOf(items[side])) => SideActivate(State, side, id) = State
        /\ id \notin IdsIn(DockWidgets(State)) => ActivateMain(State, id) = State

\* C17 witness: the left side bar is expanded on one widget, another widget is
\* in the main area, and activateLeft with the id of the widget of the main area
\* and activateMain with the id of the widget of the side bar change nothing.
C17_Witness ==
    \E v, w \in ShellWidgets :
        /\ CurrentTitle(sideBar["left"]) = v
        /\ Contains(DockWidgets(State), w)
        /\ WidgetId(w) \notin IdsIn(WidgetsOf(items["left"]))
        /\ SideActivate(State, "left", WidgetId(w)) = State
        /\ ActivateMain(State, WidgetId(v)) = State

\* There is no current tab group, or the current tab group has no selected index.
NothingSelected(s) ==
    \/ s.tracker.currentWidget = Null
    \/ \A b \in Indices(s.dockPanel) :
           Contains(Bar(s, b).titles, s.tracker.currentWidget) => Bar(s, b).currentIndex = -1

\* The state in which the selection of tab group b has been cleared through the
\* tab bar's currentIndex setter.
Deselected(s, b) == [s EXCEPT !.dockPanel[b + 1].currentIndex = -1]

\* C18: in every reachable state, and in that state with the selection of one
\* tab group cleared, in which there is no current tab group (the
\* tracker has no current widget, or its title is in no tab group) or the
\* current group has no selected index, activateNextTab, activatePreviousTab,
\* closeTab, closeRightTabs and closeOtherTabs change nothing: every tab group
\* and its selection are as before, no widget is asked to activate, none is
\* closed, and no error is raised.
C18_NothingSelectedNoOp ==
    \A s \in {State} \cup {Deselected(State, b) : b \in Indices(dockPanel)} :
        NothingSelected(s) =>
            /\ ActivateNextTab(s) = s
            /\ ActivatePreviousTab(s) = s
            /\ CloseTab(s) = s
            /\ CloseRightTabs(s) = s
            /\ CloseOtherTabs(s) = s

\* C18 witness: the main area holds two tab groups, the first with three tabs of
\* which the first is selected, and the tracker's current widget has been
\* closed, so that its title is in no tab group; the five operations leave the
\* groups alone.
C18_Witness ==
    /\ Len(dockPanel) = 2
    /\ Len(Bar(State, 0).titles) = 3
    /\ Bar(State, 0).currentIndex = 0
    /\ tracker.currentWidget # Null
    /\ ~Contains(DockWidgets(State), tracker.currentWidget)
    /\ ActivateNextTab(State).dockPanel = dockPanel
    /\ CloseRightTabs(State).log.closed = << >>
    /\ CloseOtherTabs(State).log.closed = << >>

\* setLayoutData(data) on the side bar restores the widgets data lists, the
\* absent entries aside, in the listed order and with the ranks 0, 1, 2, ...
RestoresInOrder(s, side, data) ==
    LET listed == SelectSeq(Elems(s, data.widgets), LAMBDA w : w # Null)
        restored == SideSetLayoutData(s, side, data).items[side]
    IN \A i, j \in 1 .. Len(listed) :
           /\ Contains(WidgetsOf(restored), listed[i])
           /\ At(restored, IndexOf(WidgetsOf(restored), listed[i])).rank = i - 1
           /\ i < j => IndexOf(WidgetsOf(restored), listed[i])
                           < IndexOf(WidgetsOf(restored), listed[j])

\* C19: in every reachable state of the side bars, setLayoutData(data) with a
\* widget list, be it a list of the caller's or the list getLayoutData returned,
\* leaves the listed widgets in the item sequence in the listed order, whatever
\* their ranks and whatever items the side bar held before, and the absent
\* entries of the list take no rank.
C19_ListedOrder ==
    \A side \in Sides :
        \A data \in (SideBarOnlyInputs \ {UndefinedData}) \cup {SideGetLayoutData(State, side)} :
            data.widgets.kind # "undefined" => RestoresInOrder(State, side, data)

\* The last entry of the sequence that is in the set, Null when none is.
LastIn(seq, set) ==
    LET hits == {i \in 1 .. Len(seq) : seq[i] \in set}
    IN IF hits = {} THEN Null ELSE seq[CHOOSE i \in hits : \A j \in hits : j <= i]

\* The side bar is expanded on widget w: its tab is current, the stacked panel is
\* visible and w is shown.
ExpandedOn(s, side, w) ==
    /\ CurrentTitle(s.sideBar[side]) = w
    /\ ~s.stackedPanel[side].hidden
    /\ ~s.isHidden[w]

\* After setLayoutData(data) the side bar is expanded on the last entry of
\* data.activeWidgets that is an item, and collapsed when no entry is.
RestoresExpansion(s, side, data) ==
    LET r == SideSetLayoutData(s, side, data)
        active == LastIn(Elems(s, data.activeWidgets),
                         {r.items[side][i].widget : i \in 1 .. Len(r.items[side])})
    IN IF active # Null THEN ExpandedOn(r, side, active) ELSE Collapsed(r, side)

\* C20: in every reachable state of the side bars, setLayoutData(data) with data
\* present leaves the side bar expanded on the last widget of data.activeWidgets
\* that is an item of the side bar, and collapsed when data lists no such
\* widget, whatever widget was expanded before; and setLayoutData with no data,
\* on a side bar or on the shell, changes nothing.
C20_RestoreExpansion ==
    /\ \A side \in Sides :
           /\ \A data \in (SideBarOnlyInputs \ {UndefinedData})
                              \cup {SideGetLayoutData(State, side)} :
                  RestoresExpansion(State, side, data)
           /\ SideSetLayoutData(State, side, UndefinedData) = State
    /\ SetLayoutData(State, UndefinedData) = State

\* C20 witness: the left side bar holds two widgets and is expanded on the
\* first; a restore that lists the second as active expands the second, a
\* restore with a widget list alone collapses the side bar, and a restore with
\* no data leaves the first expanded.
C20_Witness ==
    /\ Len(items["left"]) = 2
    /\ sideBar["left"].currentIndex = 0
    /\ LET v == items["left"][1].widget
           w == items["left"][2].widget
       IN /\ ExpandedOn(State, "left", v)
          /\ ExpandedOn(SideSetLayoutData(State, "left",
                            SideBarData(UndefinedArray, ArrayOf(<<w>>))), "left", w)
          /\ Collapsed(SideSetLayoutData(State, "left",
                           SideBarData(ArrayOf(<<v, w>>), UndefinedArray)), "left")
          /\ ExpandedOn(SideSetLayoutData(State, "left", UndefinedData), "left", v)

\* The widgets of the leaves that are reached from the node through the
\* children of branches.
RECURSIVE LeafWidgets(_)
LeafWidgets(node) ==
    IF node.type = "tab-area" THEN {node.widgets[i] : i \in 1 .. Len(node.widgets)}
    ELSE IF node.type = "split-area"
    THEN UNION {LeafWidgets(node.children[i]) : i \in 1 .. Len(node.children)}
    ELSE {}

\* C21: in every reachable state and for every layout tree,
\* registerWithFocusTracker(tree) ends having added to the tracker's widgets the
\* widgets of the leaves reached from the root through the children of
\* branches, and having changed nothing else: an absent tree adds nothing, and a
\* node that is neither leaf nor branch adds nothing and does not keep the
\* widgets of its siblings from being added.
C21_RegistersLeaves ==
    \A tree \in LayoutTrees :
        RegisterWithFocusTracker(State, tree)
            = [State EXCEPT !.tracker.widgets = @ \cup LeafWidgets(tree)]

\* C21 witness: one widget is in the top area, untracked, no other widget is
\* tracked, and the walk of a branch whose first child
\* is an unknown node and whose second child is a branch with an absent child
\* and a leaf registers the widgets of the leaf.
C21_Witness ==
    /\ tracker.widgets = {}
    /\ topPanel = <<1>>
    /\ RegisterWithFocusTracker(State,
           SplitArea(<<UnknownNode,
                       SplitArea(<<NullArea, TabArea(<<1, 2>>, 0)>>)>>)).tracker.widgets
           = {1, 2}
    /\ SplitArea(<<UnknownNode, SplitArea(<<NullArea, TabArea(<<1, 2>>, 0)>>)>>) \in LayoutTrees

\* The items, the stack's widgets and the strip's titles of the side bar agree
\* index by index.
Aligned(s, side) ==
    /\ WidgetsOf(s.items[side]) = s.stackedPanel[side].widgets
    /\ s.sideBar[side].titles = s.stackedPanel[side].widgets

\* C22: in every reachable state of the side bars and for each side, the item
\* sequence, the stack's widget sequence and the strip's title sequence have the
\* same length and hold the same widget at every index; addWidget leaves the
\* widget at one and the same index of the three, and the removal of a widget
\* takes it out of the three.
C22_ThreeSequences ==
    \A side \in Sides :
        /\ Aligned(State, side)
        /\ \A w \in SideBarWidgets, rank \in 0 .. MaxRank :
               /\ Aligned(SideAddWidget(State, side, w, rank), side)
               /\ HeldOnce(SideAddWidget(State, side, w, rank), side, w)
        /\ \A w \in SideBarWidgets :
               parent[w] = side =>
                   /\ Aligned(WidgetClose(State, w), side)
                   /\ side \notin AreasOf(WidgetClose(State, w), w)
                   /\ Len(WidgetClose(State, w).items[side]) = Len(items[side]) - 1

\* C22 witness: the left side bar holds two widgets with ranks 0 and 1, and a
\* third widget added with rank 0 is put between them in the three sequences.
C22_Witness ==
    /\ Len(items["left"]) = 2
    /\ items["left"][1].rank = 0
    /\ items["left"][2].rank = 1
    /\ \E w \in SideBarWidgets :
           /\ parent[w] # "left"
           /\ SideAddWidget(State, "left", w, 0).stackedPanel["left"].widgets
                  = <<items["left"][1].widget, w, items["left"][2].widget>>
           /\ SideAddWidget(State, "left", w, 0).sideBar["left"].titles
                  = <<items["left"][1].widget, w, items["left"][2].widget>>

\* The sequence without the items of widget w.
Without(itemSeq, w) == SelectSeq(itemSeq, LAMBDA item : item.widget # w)

\* In the item sequence widget w is one item, with the rank given, behind every
\* item of a lower or equal rank and before every item of a higher rank.
PlacedByRank(itemSeq, w, rank) ==
    LET p == IndexOf(WidgetsOf(itemSeq), w) + 1
    IN /\ Occurrences(WidgetsOf(itemSeq), w) = 1
       /\ itemSeq[p].rank = rank
       /\ \A i \in 1 .. Len(itemSeq) :
              /\ i < p => itemSeq[i].rank <= rank
              /\ i > p => itemSeq[i].rank > rank

\* C23: in every reachable state of the side bars no widget is twice in the
\* items of a side bar; and addWidget(widget, rank) of a widget that is an item
\* of that side bar raises no error and leaves the widget as one item, at the
\* position its new rank gives it, with the other items as they were.
C23_ReAddRelocates ==
    \A side \in Sides :
        \A w \in SideBarWidgets :
            /\ Occurrences(WidgetsOf(items[side]), w) <= 1
            /\ Contains(WidgetsOf(items[side]), w) =>
                   \A rank \in (0 .. MaxRank) \cup {DefaultRank} :
                       LET r == SideAddWidget(State, side, w, rank)
                       IN /\ ~r.log.thrown
                          /\ r.log.errors = 0
                          /\ PlacedByRank(r.items[side], w, rank)
                          /\ Without(r.items[side], w) = Without(items[side], w)

\* C23 witness: the left side bar holds v with rank 0 before w with rank 1, and
\* adding v again with rank 1 moves it behind w.
C23_Witness ==
    /\ Len(items["left"]) = 2
    /\ items["left"][1].rank = 0
    /\ items["left"][2].rank = 1
    /\ SideAddWidget(State, "left", items["left"][1].widget, 1).items["left"]
           = <<items["left"][2], [widget |-> items["left"][1].widget, rank |-> 1]>>

\* The selection of the side bar is in r what it is in s: the same current tab,
\* the same visibility of the stacked panel and of the expanded widget, the same
\* marker.
SameSelection(s, r, side) ==
    /\ CurrentTitle(r.sideBar[side]) = CurrentTitle(s.sideBar[side])
    /\ r.stackedPanel[side].hidden = s.stackedPanel[side].hidden
    /\ r.bodyAttr[side] = s.bodyAttr[side]
    /\ CurrentTitle(s.sideBar[side]) # Null =>
           r.isHidden[CurrentTitle(s.sideBar[side])] = s.isHidden[CurrentTitle(s.sideBar[side])]

\* C24: in every reachable state of the side bars, addWidget of a widget that is
\* not in the side bar leaves the side bar's selection as it is (collapsed, or
\* expanded on the same widget with the same marker) and the added widget
\* hidden, at whichever index the item is inserted; and the removal of an item
\* other than the current one leaves the selection as it is.
C24_SelectionKept ==
    \A side \in Sides :
        \A w \in SideBarWidgets :
            /\ parent[w] # side =>
                   \A rank \in (0 .. MaxRank) \cup {DefaultRank} :
                       /\ SameSelection(State, SideAddWidget(State, side, w, rank), side)
                       /\ SideAddWidget(State, side, w, rank).isHidden[w]
                       /\ SideAddWidget(State, side, w, rank).log.activated = << >>
            /\ parent[w] = side /\ CurrentTitle(sideBar[side]) # w =>
                   SameSelection(State, WidgetClose(State, w), side)

\* C24 witness: the left side bar is expanded on its only item, of rank 1, and a
\* widget added with rank 0 is inserted before it: the current index moves to 1,
\* the expanded widget stays, the added one is hidden; closing the added widget
\* again leaves the first one expanded.
C24_Witness ==
    /\ Len(items["left"]) = 1
    /\ items["left"][1].rank = 1
    /\ sideBar["left"].currentIndex = 0
    /\ ~stackedPanel["left"].hidden
    /\ \E w \in SideBarWidgets :
           /\ parent[w] # "left"
           /\ ~isHidden[w]
           /\ SideAddWidget(State, "left", w, 0).sideBar["left"].currentIndex = 1
           /\ SideAddWidget(State, "left", w, 0).isHidden[w]
           /\ CurrentTitle(SideAddWidget(State, "left", w, 0).sideBar["left"])
                  = items["left"][1].widget
           /\ CurrentTitle(WidgetClose(SideAddWidget(State, "left", w, 0), w).sideBar["left"])
                  = items["left"][1].widget

\* The widget activated last in s takes the focus, when there is one that can.
ThenFocus(s) ==
    LET n == Len(s.log.activated)
    IN IF n > 0 /\ CanFocus(s, s.log.activated[n]) THEN TrackerFocus(s, s.log.activated[n]) ELSE s

\* One call of activatePreviousTab followed by the focus event of the widget it
\* activated.
PreviousTabThenFocus(s) == ThenFocus(ActivatePreviousTab([s EXCEPT !.log = NoEffects]))

\* The position, tab group and index, of the tab of widget w.
PositionOf(s, w) ==
    IF FindTabBar(s, w) = -1 THEN <<-1, -1>>
    ELSE <<FindTabBar(s, w), IndexOf(Bar(s, FindTabBar(s, w)).titles, w)>>

\* The position of the tab whose owner the last call activated.
ActivatedPosition(s) ==
    IF s.log.activated = << >> THEN <<-1, -1>>
    ELSE PositionOf(s, s.log.activated[Len(s.log.activated)])

\* The positions activated by n calls of activateNextTab from s, each call made
\* after the widget activated before has taken the focus (focused), or one call
\* right after the other.
RECURSIVE Tour(_, _, _)
Tour(s, n, focused) ==
    IF n = 0 THEN << >>
    ELSE LET r == ActivateNextTab([s EXCEPT !.log = NoEffects])
         IN <<ActivatedPosition(r)>> \o Tour(IF focused THEN ThenFocus(r) ELSE r, n - 1, focused)

\* All tab positions of the dock panel.
TabPositions(s) ==
    UNION {{<<b, i>> : i \in Indices(Bar(s, b).titles)} : b \in Indices(s.dockPanel)}

\* The tour visits every tab once and ends on the tab that was selected at its start.
FullCycle(s, tour) ==
    /\ Len(tour) = Cardinality(TabPositions(s))
    /\ {tour[k] : k \in 1 .. Len(tour)} = TabPositions(s)
    /\ tour[Len(tour)] = <<CurrentTabBar(s), Bar(s, CurrentTabBar(s)).currentIndex>>

\* C25 (amended): in every reachable state in which the tab group of the current
\* widget has a selected tab, with T tabs in all groups together, T calls of
\* activateNextTab, each made after the widget activated by the call before has
\* taken the focus, activate every tab of every group once and end on the tab
\* selected at the start (with one group they wrap from its last index to index
\* 0); and activatePreviousTab, called after the widget activated by
\* activateNextTab has taken the focus, activates the tab selected at the start.
C25_Cycle ==
    LET g == CurrentTabBar(State)
    IN g # -1 /\ Bar(State, g).currentIndex # -1 =>
           /\ FullCycle(State, Tour(State, Cardinality(TabPositions(State)), TRUE))
           /\ ActivatedPosition(PreviousTabThenFocus(NextTabThenFocus(State)))
                  = <<g, Bar(State, g).currentIndex>>

\* C25 witness: one tab group of three tabs with the last one selected and its
\* owner current; three calls visit index 0, 1 and 2, and activatePreviousTab
\* after the first comes back to index 2.
C25_Witness ==
    /\ Len(dockPanel) = 1
    /\ Len(Bar(State, 0).titles) = 3
    /\ Bar(State, 0).currentIndex = 2
    /\ CurrentPosition(State) = <<0, 2>>
    /\ Tour(State, 3, TRUE) = <<<<0, 0>>, <<0, 1>>, <<0, 2>>>>
    /\ CurrentPosition(NextTabThenFocus(State)) = <<0, 0>>
    /\ CurrentPosition(PreviousTabThenFocus(NextTabThenFocus(State))) = <<0, 2>>

\* C25 as stated: the T calls are consecutive, one right after the other, and
\* activatePreviousTab is called immediately after activateNextTab.
C25_Original ==
    LET g == CurrentTabBar(State)
    IN g # -1 /\ Bar(State, g).currentIndex # -1 =>
           /\ FullCycle(State, Tour(State, Cardinality(TabPositions(State)), FALSE))
           /\ ActivatedPosition(ActivatePreviousTab(ActivateNextTab(State)))
                  = <<g, Bar(State, g).currentIndex>>

====
